---------------------------- MODULE Spec2Model ----------------------------
(***************************************************************************)
(* A model of nexus-collection-dl's core: the diff engine of               *)
(* CollectionState (state.py), the load order resolver of                  *)
(* LoadOrderGenerator (loadorder.py) and the deployment executor           *)
(* (deploy.py).                                                            *)
(***************************************************************************)
EXTENDS Integers, Sequences, FiniteSets, TLC

(***************************************************************************)
(* Bounds of the model.                                                    *)
(***************************************************************************)
\* longest latest mod list handed to compare_with_collection
MaxLatest == 2

\* rules of manifest.mod_rules in one run of the resolver
MaxRules == 2

\* (mod, requirement) pairs of mod_requirements in one run of the resolver
MaxReqs == 1

\* the highest phase of manifest.mod_phases
MaxPhase == 1

\* entries of plan.game_root_files
MaxRootFiles == 2

\* entries of plan.data_files
MaxDataFiles == 2

(***************************************************************************)
(* State.                                                                  *)
(***************************************************************************)
\* CollectionState and the results of compare_with_collection (state.py)
VARIABLES
    state_mods,       \* CollectionState.mods: mod_id -> ModState
    collection_mods,  \* the latest mod list of the collection
    to_install,       \* the four results of compare_with_collection
    to_update,
    up_to_date,
    to_remove,
    diff_pc           \* "start" before the call, "done" after it returned

diff_vars == <<state_mods, collection_mods, to_install, to_update, up_to_date,
               to_remove, diff_pc>>

\* the locals of LoadOrderGenerator._sort_mods (loadorder.py)
VARIABLES
    mod_names,      \* self.mods[mod_id]["mod_name"], a string of character codes
    mod_phases,     \* self.manifest.mod_phases
    edges,          \* edges[a]: the mods that must come after a
    in_degree,      \* the in-degree counter of every mod
    rules_seen,     \* rules of manifest.mod_rules the first loop has consumed
    reqs_seen,      \* (mod, requirement) pairs the second loop has consumed
    queue,          \* the heap, as the sequence of its entries in pop order
    result,         \* the order built so far, and returned
    visited,
    rerun,          \* what a second run on the same input returns
    used_fallback,  \* whether the run took the branch of line 173
    sort_pc

sort_vars == <<mod_names, mod_phases, edges, in_degree, rules_seen, reqs_seen,
               queue, result, visited, rerun, used_fallback, sort_pc>>

\* the destination tree and the locals of deploy and undeploy (deploy.py)
VARIABLES
    fs_dirs,      \* the directories that exist, as paths (sequences of names)
    fs_files,     \* the files and symbolic links that exist: path -> content
    fs0_dirs,     \* the tree as it was when deploy was called
    fs0_files,
    plan_root,    \* plan.game_root_files: the dest_rel of every entry
    plan_data,    \* plan.data_files: the dest_rel of every entry
    method,
    dry_run,
    dep_i,        \* the entry the running loop of deploy handles next
    deployed,     \* result.deployed
    conflicts,    \* result.conflicts
    errors,       \* result.errors
    seen_dests,   \* dest -> src of the Data/ loop
    und_i,        \* the record undeploy handles next
    removed,      \* undeploy's count
    dep_pc,
    run,          \* 1 in the first call of deploy, 2 in a repeated call
    os_log,       \* what the OS did to the entries of this call, in order
    first         \* what the first call returned and left, once it is repeated

deploy_vars == <<fs_dirs, fs_files, fs0_dirs, fs0_files, plan_root, plan_data,
                 method, dry_run, dep_i, deployed, conflicts, errors,
                 seen_dests, und_i, removed, dep_pc, run, os_log, first>>

\* the bookkeeping of a repeated call of deploy
redeploy_vars == <<run, os_log, first>>

\* the deploy and undeploy commands (service.py, cli.py) and the state file
VARIABLES
    svc_op,           \* the command that runs: "deploy" or "undeploy"
    svc_pc,           \* where the command is
    persisted,        \* deployed_files of the state file on disk
    persisted0,       \* deployed_files of the state file when the command began
    state_deployed    \* state.deployed_files of the loaded CollectionState

svc_vars == <<svc_op, svc_pc, persisted, persisted0, state_deployed>>

\* the arguments and the result of merge_plugin_orders (loot_sort.py)
VARIABLES
    collection_plugins,  \* manifest.plugins
    loot_sorted,         \* what sort_plugins_with_loot returned
    merged,              \* the merged listing
    plug_pc

plugin_vars == <<collection_plugins, loot_sorted, merged, plug_pc>>

\* the commands that read the state file and write the load order files:
\* regenerate_load_order and sync (service.py)
VARIABLES
    cmd_op,        \* "regenerate" or "sync"
    cmd_pc,
    state_file,    \* the state file on disk: exists, parses, what it holds
    state_file0,   \* the state file when the command began
    cmd_state,     \* the CollectionState of the command: manifest_data, mods
    sync_mods,     \* the mods of the collection a sync downloads
    sync_i,        \* the download result the extract loop handles next
    manifest_in,   \* what fetching and parsing the collection manifest gives
    lo_written,    \* the load order and plugin files the command has written
    cmd_result     \* "none" while running, "ok" for a result, "error" raised

cmd_vars == <<cmd_op, cmd_pc, state_file, state_file0, cmd_state, sync_mods,
              sync_i, manifest_in, lo_written, cmd_result>>

\* the classification of one staged file: classify_files (deploy.py)
VARIABLES
    cls_rel,          \* the path of the file, relative to the staging directory
    effective_parts,  \* what the stripping of wrapper directories has left of it
    cls_plan,         \* the entry that the file got in the plan
    cls_pc            \* "start", "strip" or "done"

class_vars == <<cls_rel, effective_parts, cls_plan, cls_pc>>

\* the mods of the state file under add_local and add_mod (service.py, state.py)
VARIABLES
    loc_mods,    \* state.mods as saved: mod id -> record
    loc_prev,    \* state.mods before the last operation
    loc_op,      \* the last operation: "none", "add_mod", "add_url", "add_local"
    loc_ret,     \* the id that the last add_local returned, 0 before the first
    loc_local,   \* the ids that add_local has returned so far
    loc_n        \* the number of operations so far

local_vars == <<loc_mods, loc_prev, loc_op, loc_ret, loc_local, loc_n>>

\* one update run and a second comparison after it: ModManagerService.update
VARIABLES
    rec_state0,   \* state.mods when the update begins
    rec_state,    \* state.mods as the update changes it
    rec_latest,   \* the mod list of the collection
    rec_queue,    \* results of download_mods that are still to be registered
    rec_first,    \* what compare_with_collection returned in the update
    rec_second,   \* what it returns on the state after the update
    rec_pc        \* "start", "extract", "saved", "done"

reconcile_vars == <<rec_state0, rec_state, rec_latest, rec_queue, rec_first,
                    rec_second, rec_pc>>

\* the web application: background tasks on one mods directory (web/app.py,
\* web/tasks.py)
VARIABLES
    web_tasks,      \* TaskManager._tasks: task id -> operation, status and the
                    \* CollectionState that the task's thread has loaded
    web_file,       \* the state file of the mods directory
    web_saves,      \* how often the state file has been saved
    web_overwrote   \* a task has saved over a save made after its own load

web_vars == <<web_tasks, web_file, web_saves, web_overwrote>>

\* what an action of the diff engine leaves alone
not_diff == <<sort_vars, deploy_vars, svc_vars, plugin_vars, cmd_vars, class_vars, local_vars, reconcile_vars, web_vars>>

\* what an action of the resolver leaves alone
not_sort == <<diff_vars, deploy_vars, svc_vars, plugin_vars, cmd_vars, class_vars, local_vars, reconcile_vars, web_vars>>

\* what an action of the deployment executor leaves alone
not_deploy == <<diff_vars, sort_vars, svc_vars, plugin_vars, cmd_vars, class_vars, local_vars, reconcile_vars, web_vars>>

\* what a step of a command leaves alone
not_svc == <<diff_vars, sort_vars, plugin_vars, cmd_vars, class_vars, local_vars, reconcile_vars, web_vars>>

\* what the plugin merge leaves alone
not_plugins == <<diff_vars, sort_vars, deploy_vars, svc_vars, cmd_vars, class_vars, local_vars, reconcile_vars, web_vars>>

\* what a step of regenerate_load_order or sync leaves alone
not_cmd == <<diff_vars, sort_vars, deploy_vars, svc_vars, plugin_vars, class_vars, local_vars, reconcile_vars, web_vars>>

\* what a step of classify_files leaves alone
not_classify == <<diff_vars, sort_vars, deploy_vars, svc_vars, plugin_vars, cmd_vars, local_vars, reconcile_vars, web_vars>>

\* what add_local and add_mod leave alone
not_local == <<diff_vars, sort_vars, deploy_vars, svc_vars, plugin_vars, cmd_vars, class_vars, reconcile_vars, web_vars>>

\* what a step of an update leaves alone
not_reconcile == <<diff_vars, sort_vars, deploy_vars, svc_vars, plugin_vars, cmd_vars, class_vars, local_vars, web_vars>>

\* what a step of the web application leaves alone
not_web == <<diff_vars, sort_vars, deploy_vars, svc_vars, plugin_vars, cmd_vars, class_vars, local_vars, reconcile_vars>>

(***************************************************************************)
(* Generic helpers.                                                        *)
(***************************************************************************)
Range(s) == {s[i] : i \in DOMAIN s}

SeqsUpTo(S, n) == UNION {[1..k -> S] : k \in 0..n}

RECURSIVE FilterSeq(_, _, _)
\* [x for x in s if Keep(x)], order kept
FilterSeq(s, Keep(_), acc) ==
    IF s = <<>> THEN acc
    ELSE FilterSeq(Tail(s), Keep, IF Keep(Head(s)) THEN Append(acc, Head(s)) ELSE acc)

(***************************************************************************)
(* Diff engine: CollectionState.compare_with_collection (state.py).        *)
(***************************************************************************)
DiffModIds == {10, 11}
FileIds == {1, 5, 6}
Versions == {"1.0", "2.0"}

\* ModState, the fields compare_with_collection and add_mod read or write
ModState == [file_id : FileIds, version : Versions, manual : BOOLEAN]

\* an entry of the collection's mod list (api.get_collection_mods)
CollectionMod == [mod_id : DiffModIds, file_id : FileIds, version : Versions]

InstalledStates == UNION {[S -> ModState] : S \in SUBSET DiffModIds}

\* the bucket of one collection mod: compared by file_id alone
Bucket(installed, mod) ==
    IF mod.mod_id \notin DOMAIN installed THEN "to_install"
    ELSE IF installed[mod.mod_id].file_id # mod.file_id THEN "to_update"
    ELSE "up_to_date"

\* a plausible slip: a mod counts as changed when its version string changed
BucketByVersion(installed, mod) ==
    IF mod.mod_id \notin DOMAIN installed THEN "to_install"
    ELSE IF installed[mod.mod_id].version # mod.version THEN "to_update"
    ELSE "up_to_date"

\* the loop of compare_with_collection
Classify(installed, mod) == Bucket(installed, mod)

BucketList(installed, latest, bucket) ==
    LET Keep(m) == Classify(installed, m) = bucket
    IN  FilterSeq(latest, Keep, <<>>)

manual_mod_ids(installed) == {mid \in DOMAIN installed : installed[mid].manual}

\* a plausible slip: manual mods are not exempt from removal
ToRemoveWithManual(installed, latest) ==
    DOMAIN installed \ {latest[i].mod_id : i \in DOMAIN latest}

\* a plausible slip: the collection's mod ids are not subtracted
ToRemoveAllInstalled(installed, latest) ==
    DOMAIN installed \ manual_mod_ids(installed)

ToRemove(installed, latest) ==
    (DOMAIN installed \ {latest[i].mod_id : i \in DOMAIN latest})
        \ manual_mod_ids(installed)

\* to_remove as the call computes it
RemoveSet(installed, latest) == ToRemove(installed, latest)

compare_with_collection ==
    /\ diff_pc = "start"
    /\ to_install' = BucketList(state_mods, collection_mods, "to_install")
    /\ to_update' = BucketList(state_mods, collection_mods, "to_update")
    /\ up_to_date' = BucketList(state_mods, collection_mods, "up_to_date")
    /\ to_remove' = RemoveSet(state_mods, collection_mods)
    /\ diff_pc' = "done"
    /\ UNCHANGED <<state_mods, collection_mods>>
    /\ UNCHANGED not_diff

DiffIdle ==
    /\ state_mods = <<>>
    /\ collection_mods = <<>>
    /\ to_install = <<>>
    /\ to_update = <<>>
    /\ up_to_date = <<>>
    /\ to_remove = {}
    /\ diff_pc = "idle"

InitDiff ==
    /\ state_mods \in InstalledStates
    /\ collection_mods \in SeqsUpTo(CollectionMod, MaxLatest)
    /\ to_install = <<>>
    /\ to_update = <<>>
    /\ up_to_date = <<>>
    /\ to_remove = {}
    /\ diff_pc = "start"

(***************************************************************************)
(* Load order resolver: LoadOrderGenerator._sort_mods (loadorder.py).      *)
(***************************************************************************)
\* all_mod_ids: the mods of the collection
all_mod_ids == {1, 2, 3}

\* a modId a rule may name that is no mod of the collection
OutsideModId == 4

\* a rule whose source or target carries no modId (rule.get(...) is None)
NoModId == 0

RuleIds == all_mod_ids \cup {OutsideModId, NoModId}

RuleTypes == {"before", "after", "requires", "conflicts"}

Phases == 0..MaxPhase

\* mod names: "a", "B"
ModNames == {<<97>>, <<66>>}

\* str.lower() of one ASCII character
LowerChar(c) == IF c >= 65 /\ c <= 90 THEN c + 32 ELSE c

\* str.lower()
Lower(name) == [i \in DOMAIN name |-> LowerChar(name[i])]

RECURSIVE StrLess(_, _)
\* s < t on strings: by code point, a proper prefix first
StrLess(s, t) ==
    IF t = <<>> THEN FALSE
    ELSE IF s = <<>> THEN TRUE
    ELSE IF Head(s) # Head(t) THEN Head(s) < Head(t)
    ELSE StrLess(Tail(s), Tail(t))

\* (phase, name.lower(), mod_id), the entry pushed on the heap
HeapKeyRaw(names, phases, m) == <<phases[m], names[m], m>>

HeapKeyLowered(names, phases, m) == <<phases[m], Lower(names[m]), m>>

HeapKey(names, phases, m) == HeapKeyLowered(names, phases, m)

\* tuple comparison of two heap entries
HeapLess(a, b) ==
    \/ a[1] < b[1]
    \/ a[1] = b[1] /\ StrLess(a[2], b[2])
    \/ a[1] = b[1] /\ a[2] = b[2] /\ a[3] < b[3]

\* the key of the cycle fallback's sorted(): (phase, name.lower())
FallbackKeyNameOnly(names, phases, m) == <<0, Lower(names[m])>>

FallbackKeyFull(names, phases, m) == <<phases[m], Lower(names[m])>>

FallbackKey(names, phases, m) == FallbackKeyFull(names, phases, m)

FallbackLess(a, b) ==
    \/ a[1] < b[1]
    \/ a[1] = b[1] /\ StrLess(a[2], b[2])

RECURSIVE HeapPush(_, _, _, _)
\* heapq.heappush: the heap holds one more entry; pops come smallest first
HeapPush(q, m, names, phases) ==
    IF q = <<>> THEN <<m>>
    ELSE IF HeapLess(HeapKey(names, phases, m), HeapKey(names, phases, Head(q)))
         THEN <<m>> \o q
         ELSE <<Head(q)>> \o HeapPush(Tail(q), m, names, phases)

RECURSIVE HeapPushAll(_, _, _, _)
\* one heappush for every mod of the set S
HeapPushAll(q, S, names, phases) ==
    IF S = {} THEN q
    ELSE LET m == CHOOSE x \in S : TRUE
         IN  HeapPushAll(HeapPush(q, m, names, phases), S \ {m}, names, phases)

\* edges[a].add(b); in_degree[b] += 1, as the rule loop does it
AddRuleEdge(g, a, b) ==
    [edges |-> [g.edges EXCEPT ![a] = @ \cup {b}],
     in_degree |-> [g.in_degree EXCEPT ![b] = @ + 1]]

\* the edge and the count are added only when the edge is not there yet
AddReqEdge(g, a, b) ==
    IF b \in g.edges[a] THEN g ELSE AddRuleEdge(g, a, b)

\* one iteration of the loop over manifest.mod_rules
RuleStep(g, rule_type, source_id, target_id) ==
    IF source_id = NoModId \/ target_id = NoModId THEN g
    ELSE IF source_id \notin all_mod_ids \/ target_id \notin all_mod_ids THEN g
    ELSE IF rule_type = "before" THEN AddRuleEdge(g, source_id, target_id)
    ELSE IF rule_type = "after" THEN AddRuleEdge(g, target_id, source_id)
    ELSE IF rule_type = "requires" THEN AddRuleEdge(g, target_id, source_id)
    ELSE g

\* one iteration of the inner loop over mod_requirements
ReqStep(g, mod_id, req_id) ==
    IF mod_id \notin all_mod_ids THEN g
    ELSE IF req_id \notin all_mod_ids THEN g
    ELSE AddReqEdge(g, req_id, mod_id)

ProcessRule ==
    /\ sort_pc = "rules"
    /\ rules_seen < MaxRules
    /\ \E rule_type \in RuleTypes, source_id \in RuleIds, target_id \in RuleIds :
         LET g == RuleStep([edges |-> edges, in_degree |-> in_degree],
                           rule_type, source_id, target_id)
         IN  /\ edges' = g.edges
             /\ in_degree' = g.in_degree
    /\ rules_seen' = rules_seen + 1
    /\ UNCHANGED <<mod_names, mod_phases, reqs_seen, queue, result, visited,
                   rerun, used_fallback, sort_pc>>
    /\ UNCHANGED not_sort

EndRules ==
    /\ sort_pc = "rules"
    /\ sort_pc' = "reqs"
    /\ UNCHANGED <<mod_names, mod_phases, edges, in_degree, rules_seen,
                   reqs_seen, queue, result, visited, rerun, used_fallback>>
    /\ UNCHANGED not_sort

ProcessRequirement ==
    /\ sort_pc = "reqs"
    /\ reqs_seen < MaxReqs
    /\ \E mod_id \in all_mod_ids \cup {OutsideModId},
          req_id \in all_mod_ids \cup {OutsideModId} :
         LET g == ReqStep([edges |-> edges, in_degree |-> in_degree],
                          mod_id, req_id)
         IN  /\ edges' = g.edges
             /\ in_degree' = g.in_degree
    /\ reqs_seen' = reqs_seen + 1
    /\ UNCHANGED <<mod_names, mod_phases, rules_seen, queue, result, visited,
                   rerun, used_fallback, sort_pc>>
    /\ UNCHANGED not_sort

\* the loop that pushes every mod of in-degree 0
InitQueue ==
    /\ sort_pc = "reqs"
    /\ queue' = HeapPushAll(<<>>, {m \in all_mod_ids : in_degree[m] = 0},
                            mod_names, mod_phases)
    /\ sort_pc' = "kahn"
    /\ UNCHANGED <<mod_names, mod_phases, edges, in_degree, rules_seen,
                   reqs_seen, result, visited, rerun, used_fallback>>
    /\ UNCHANGED not_sort

\* the neighbours whose counter the pop brought to zero
NewlyReadyAny(deg, neighbors) == neighbors

NewlyReadyZero(deg, neighbors) == {n \in neighbors : deg[n] = 0}

NewlyReady(deg, neighbors) == NewlyReadyZero(deg, neighbors)

\* one iteration of "while queue"
KahnStep ==
    /\ sort_pc = "kahn"
    /\ queue # <<>>
    /\ LET mod_id == Head(queue)
           deg == [n \in all_mod_ids |->
                     IF n \in edges[mod_id] THEN in_degree[n] - 1
                     ELSE in_degree[n]]
       IN  /\ result' = Append(result, mod_id)
           /\ visited' = visited + 1
           /\ in_degree' = deg
           /\ queue' = HeapPushAll(Tail(queue), NewlyReady(deg, edges[mod_id]),
                                   mod_names, mod_phases)
    /\ UNCHANGED <<mod_names, mod_phases, edges, rules_seen, reqs_seen, rerun,
                   used_fallback, sort_pc>>
    /\ UNCHANGED not_sort

Perms(S) ==
    {f \in [1..Cardinality(S) -> S] : \A i, j \in DOMAIN f : f[i] = f[j] => i = j}

RemainingUnvisited(res) == all_mod_ids \ Range(res)

\* remaining = all_mod_ids - set(result)
Remaining(res) == RemainingUnvisited(res)

\* sorted(remaining, key=...): sorted() is stable, so mods of equal key keep
\* the iteration order of the set, which the language does not fix
FallbackOrders(rem, names, phases) ==
    {s \in Perms(rem) :
        \A i, j \in DOMAIN s :
            i < j => ~FallbackLess(FallbackKey(names, phases, s[j]),
                                   FallbackKey(names, phases, s[i]))}

\* the end of the loop, the cycle fallback and the return
Finish ==
    /\ sort_pc = "kahn"
    /\ queue = <<>>
    /\ IF visited < Cardinality(all_mod_ids)
       THEN /\ \E tail \in FallbackOrders(Remaining(result), mod_names, mod_phases) :
                  result' = result \o tail
            /\ \E tail \in FallbackOrders(Remaining(result), mod_names, mod_phases) :
                  rerun' = result \o tail
            /\ used_fallback' = TRUE
       ELSE /\ rerun' = result
            /\ UNCHANGED <<result, used_fallback>>
    /\ sort_pc' = "done"
    /\ UNCHANGED <<mod_names, mod_phases, edges, in_degree, rules_seen,
                   reqs_seen, queue, visited>>
    /\ UNCHANGED not_sort

InitSort ==
    /\ mod_names \in [all_mod_ids -> ModNames]
    /\ mod_phases \in [all_mod_ids -> Phases]
    /\ edges = [m \in all_mod_ids |-> {}]
    /\ in_degree = [m \in all_mod_ids |-> 0]
    /\ rules_seen = 0
    /\ reqs_seen = 0
    /\ queue = <<>>
    /\ result = <<>>
    /\ visited = 0
    /\ rerun = <<>>
    /\ used_fallback = FALSE
    /\ sort_pc = "rules"

SortIdle ==
    /\ mod_names = <<>>
    /\ mod_phases = <<>>
    /\ edges = <<>>
    /\ in_degree = <<>>
    /\ rules_seen = 0
    /\ reqs_seen = 0
    /\ queue = <<>>
    /\ result = <<>>
    /\ visited = 0
    /\ rerun = <<>>
    /\ used_fallback = FALSE
    /\ sort_pc = "idle"

(***************************************************************************)
(* Deployment executor: deploy, _deploy_file, undeploy and                 *)
(* _cleanup_empty_parents (deploy.py).                                     *)
(***************************************************************************)
\* the game directory, and the directory it lies in
game_dir == <<"games", "sf">>

\* data_dir = game_dir / "Data"
data_dir == game_dir \o <<"Data">>

\* Path.parent
Parent(path) == IF path = <<>> THEN <<>> ELSE SubSeq(path, 1, Len(path) - 1)

\* Path.name: empty for the filesystem root
Name(path) == IF path = <<>> THEN "" ELSE path[Len(path)]

\* a path and all the directories above it
Prefixes(path) == {SubSeq(path, 1, k) : k \in 0..Len(path)}

\* the destinations classify_file gives game-root files: bare file names
RootDests == {<<"sfse_loader.exe">>}

\* destinations of Data/ files, relative to Data/
DataDests == {<<"a.esp">>, <<"Meshes", "foo.nif">>, <<"Meshes", "data", "b.nif">>}

Methods == {"symlink", "copy"}

\* how the file operations of one _deploy_file call end: all succeed, mkdir
\* raises OSError, or the link or copy raises OSError
Outcomes == {"ok", "mkdir_fails", "create_fails"}

\* the staged file of the i-th entry of a partition: classify_files lists
\* every staged file once
Src(base, i) == <<base, i>>

\* a file that is no deployment of this tool
Foreign == <<"foreign", 0>>

\* the directories the tree may hold before the deploy
TreeDirs == {<<>>, <<"games">>, game_dir, data_dir, data_dir \o <<"Meshes">>}

\* the files the tree may hold before the deploy
TreeFiles == {game_dir \o <<"game.exe">>, data_dir \o <<"a.esp">>,
              data_dir \o <<"Meshes", "other.nif">>}

IsEmptyDir(dirs, files, d) ==
    /\ \A f \in DOMAIN files : Parent(f) # d
    /\ \A e \in dirs : e = <<>> \/ Parent(e) # d

\* _deploy_file: [ok, dirs, files] after the call
DeployFileEffect(dirs, files, src, dest, m, outcome) ==
    LET parent == Parent(dest)
        blocked == \E a \in Prefixes(parent) : a \in DOMAIN files
        made == dirs \cup Prefixes(parent)
        cleared == [f \in DOMAIN files \ {dest} |-> files[f]]
    IN  IF outcome = "mkdir_fails" \/ blocked
        THEN [ok |-> FALSE, dirs |-> dirs, files |-> files]
        \* symlink_to raises FileExistsError on a directory; no destination of
        \* the plans below is a directory
        ELSE IF outcome = "create_fails" \/ dest \in made
        THEN [ok |-> FALSE, dirs |-> made, files |-> cleared]
        ELSE [ok |-> TRUE, dirs |-> made,
              files |-> [f \in DOMAIN files \cup {dest} |->
                            IF f = dest THEN [src |-> src, method |-> m]
                            ELSE files[f]]]

\* a plausible slip: an existing destination is not removed first, so that
\* the link or copy onto it fails
DeployFileNoUnlink(dirs, files, src, dest, m, outcome) ==
    IF dest \in DOMAIN files /\ outcome = "ok"
    THEN [ok |-> FALSE, dirs |-> dirs \cup Prefixes(Parent(dest)), files |-> files]
    ELSE DeployFileEffect(dirs, files, src, dest, m, outcome)

\* a plausible slip: a failing link or copy goes unnoticed
DeployFileSwallows(dirs, files, src, dest, m, outcome) ==
    [DeployFileEffect(dirs, files, src, dest, m, outcome) EXCEPT !.ok = TRUE]

_deploy_file(dirs, files, src, dest, m, outcome) ==
    DeployFileEffect(dirs, files, src, dest, m, outcome)

DeployedFile(src, dest, m) == [src |-> src, dest |-> dest, method |-> m]

\* what the OS may do to the next entry: anything in the first call; in a
\* repeated call what it did to the same entry in the first call, or success
OsOutcomes ==
    IF run = 1 THEN Outcomes
    ELSE {"ok"} \cup (IF Len(os_log) < Len(first.os_log)
                      THEN {first.os_log[Len(os_log) + 1]} ELSE {})

\* one iteration of the loop over plan.game_root_files
DeployRootFile ==
    /\ dep_pc = "root"
    /\ dep_i <= Len(plan_root)
    /\ LET src == Src("root", dep_i)
           dest_rel == plan_root[dep_i]
           dest == game_dir \o dest_rel
       IN  IF dry_run
           THEN /\ deployed' = Append(deployed, DeployedFile(src, dest, method))
                /\ UNCHANGED <<fs_dirs, fs_files, errors, os_log>>
           ELSE \E outcome \in OsOutcomes :
                  LET r == _deploy_file(fs_dirs, fs_files, src, dest, method, outcome)
                  IN  /\ fs_dirs' = r.dirs
                      /\ fs_files' = r.files
                      /\ os_log' = Append(os_log, outcome)
                      /\ IF r.ok
                         THEN /\ deployed' = Append(deployed,
                                                    DeployedFile(src, dest, method))
                              /\ UNCHANGED errors
                         ELSE /\ errors' = Append(errors, dest_rel)
                              /\ UNCHANGED deployed
    /\ dep_i' = dep_i + 1
    /\ UNCHANGED <<fs0_dirs, fs0_files, plan_root, plan_data, method, dry_run,
                   conflicts, seen_dests, und_i, removed, dep_pc, run, first>>
    /\ UNCHANGED not_deploy

\* the first loop is over: seen_dests = {} and the second loop starts
StartDataLoop ==
    /\ dep_pc = "root"
    /\ dep_i > Len(plan_root)
    /\ dep_pc' = "data"
    /\ dep_i' = 1
    /\ seen_dests' = <<>>
    /\ UNCHANGED <<fs_dirs, fs_files, fs0_dirs, fs0_files, plan_root, plan_data,
                   method, dry_run, deployed, conflicts, errors, und_i, removed>>
    /\ UNCHANGED redeploy_vars
    /\ UNCHANGED not_deploy

\* one iteration of the loop over plan.data_files
DeployDataFile ==
    /\ dep_pc = "data"
    /\ dep_i <= Len(plan_data)
    /\ LET src == Src("data", dep_i)
           dest_rel == plan_data[dep_i]
           dest == data_dir \o dest_rel
       IN  /\ conflicts' =
                 IF dest \in DOMAIN seen_dests
                 THEN Append(conflicts, [dest_rel |-> dest_rel, by |-> src,
                                         was |-> seen_dests[dest]])
                 ELSE conflicts
           /\ seen_dests' = [d \in DOMAIN seen_dests \cup {dest} |->
                                IF d = dest THEN src ELSE seen_dests[d]]
           /\ IF dry_run
              THEN /\ deployed' = Append(deployed, DeployedFile(src, dest, method))
                   /\ UNCHANGED <<fs_dirs, fs_files, errors, os_log>>
              ELSE \E outcome \in OsOutcomes :
                     LET r == _deploy_file(fs_dirs, fs_files, src, dest, method, outcome)
                     IN  /\ fs_dirs' = r.dirs
                         /\ fs_files' = r.files
                         /\ os_log' = Append(os_log, outcome)
                         /\ IF r.ok
                            THEN /\ deployed' = Append(deployed,
                                                       DeployedFile(src, dest, method))
                                 /\ UNCHANGED errors
                            ELSE /\ errors' = Append(errors, dest_rel)
                                 /\ UNCHANGED deployed
    /\ dep_i' = dep_i + 1
    /\ UNCHANGED <<fs0_dirs, fs0_files, plan_root, plan_data, method, dry_run,
                   und_i, removed, dep_pc, run, first>>
    /\ UNCHANGED not_deploy

\* return result
DeployReturn ==
    /\ dep_pc = "data"
    /\ dep_i > Len(plan_data)
    /\ dep_pc' = "deployed"
    /\ UNCHANGED <<fs_dirs, fs_files, fs0_dirs, fs0_files, plan_root, plan_data,
                   method, dry_run, dep_i, deployed, conflicts, errors,
                   seen_dests, und_i, removed>>
    /\ UNCHANGED redeploy_vars
    /\ UNCHANGED not_deploy

\* what a call of deploy returned and left behind
Snapshot == [deployed |-> deployed, conflicts |-> conflicts, errors |-> errors,
             dirs |-> fs_dirs, files |-> fs_files, os_log |-> os_log]

NoSnapshot == [deployed |-> <<>>, conflicts |-> <<>>, errors |-> <<>>,
               dirs |-> {}, files |-> <<>>, os_log |-> <<>>]

\* deploy is called again with the same plan, game_dir, method and dry_run:
\* a new DeployResult, and the loops start over on the tree the first call left
Redeploy ==
    /\ dep_pc = "deployed"
    /\ run = 1
    /\ run' = 2
    /\ first' = Snapshot
    /\ dep_pc' = "root"
    /\ dep_i' = 1
    /\ deployed' = <<>>
    /\ conflicts' = <<>>
    /\ errors' = <<>>
    /\ seen_dests' = <<>>
    /\ os_log' = <<>>
    /\ UNCHANGED <<fs_dirs, fs_files, fs0_dirs, fs0_files, plan_root, plan_data,
                   method, dry_run, und_i, removed>>
    /\ UNCHANGED not_deploy

\* the names _cleanup_empty_parents stops at
StopNames == {"Data", "data"}

RECURSIVE CleanupWalk(_, _, _)
\* the directories left by _cleanup_empty_parents(directory)
CleanupWalk(dirs, files, directory) ==
    IF Name(directory) = "" \/ Name(directory) \in StopNames THEN dirs
    ELSE IF directory \notin dirs THEN dirs
    ELSE IF IsEmptyDir(dirs, files, directory)
         THEN CleanupWalk(dirs \ {directory}, files, Parent(directory))
         ELSE dirs

\* a plausible slip: no pruning at all
CleanupNothing(dirs, files, directory) == dirs

_cleanup_empty_parents(dirs, files, directory) ==
    CleanupWalk(dirs, files, directory)

\* undeploy(result.deployed) is called
UndeployStart ==
    /\ dep_pc = "deployed"
    /\ dep_pc' = "undeploy"
    /\ und_i' = 1
    /\ removed' = 0
    /\ UNCHANGED <<fs_dirs, fs_files, fs0_dirs, fs0_files, plan_root, plan_data,
                   method, dry_run, dep_i, deployed, conflicts, errors,
                   seen_dests>>
    /\ UNCHANGED redeploy_vars
    /\ UNCHANGED not_deploy

\* one iteration of the loop of undeploy
UndeployEntry ==
    /\ dep_pc = "undeploy"
    /\ und_i <= Len(deployed)
    /\ LET dest == deployed[und_i].dest
           left == [f \in DOMAIN fs_files \ {dest} |-> fs_files[f]]
       IN  IF dest \in DOMAIN fs_files
           THEN /\ fs_files' = left
                /\ removed' = removed + 1
                /\ fs_dirs' = _cleanup_empty_parents(fs_dirs, left, Parent(dest))
           ELSE UNCHANGED <<fs_files, fs_dirs, removed>>
    /\ und_i' = und_i + 1
    /\ UNCHANGED <<fs0_dirs, fs0_files, plan_root, plan_data, method, dry_run,
                   dep_i, deployed, conflicts, errors, seen_dests, dep_pc>>
    /\ UNCHANGED redeploy_vars
    /\ UNCHANGED not_deploy

\* return removed
UndeployReturn ==
    /\ dep_pc = "undeploy"
    /\ und_i > Len(deployed)
    /\ dep_pc' = "undeployed"
    /\ UNCHANGED <<fs_dirs, fs_files, fs0_dirs, fs0_files, plan_root, plan_data,
                   method, dry_run, dep_i, deployed, conflicts, errors,
                   seen_dests, und_i, removed>>
    /\ UNCHANGED redeploy_vars
    /\ UNCHANGED not_deploy

\* the trees deploy may find: a directory exists with all above it, a file
\* lies in an existing directory
InitialTrees ==
    {t \in [dirs : SUBSET TreeDirs, files : SUBSET TreeFiles] :
        /\ <<>> \in t.dirs
        /\ \A d \in t.dirs : Parent(d) \in t.dirs
        /\ \A f \in t.files : Parent(f) \in t.dirs}

InitDeploy ==
    /\ \E t \in InitialTrees :
          /\ fs_dirs = t.dirs
          /\ fs_files = [f \in t.files |-> [src |-> Foreign, method |-> "copy"]]
    /\ fs0_dirs = fs_dirs
    /\ fs0_files = fs_files
    /\ plan_root \in SeqsUpTo(RootDests, MaxRootFiles)
    /\ plan_data \in SeqsUpTo(DataDests, MaxDataFiles)
    /\ method \in Methods
    /\ dry_run \in BOOLEAN
    /\ dep_i = 1
    /\ deployed = <<>>
    /\ conflicts = <<>>
    /\ errors = <<>>
    /\ seen_dests = <<>>
    /\ und_i = 1
    /\ removed = 0
    /\ dep_pc = "root"
    /\ run = 1
    /\ os_log = <<>>
    /\ first = NoSnapshot

DeployIdle ==
    /\ fs_dirs = {}
    /\ fs_files = <<>>
    /\ fs0_dirs = {}
    /\ fs0_files = <<>>
    /\ plan_root = <<>>
    /\ plan_data = <<>>
    /\ method = "symlink"
    /\ dry_run = FALSE
    /\ dep_i = 1
    /\ deployed = <<>>
    /\ conflicts = <<>>
    /\ errors = <<>>
    /\ seen_dests = <<>>
    /\ und_i = 1
    /\ removed = 0
    /\ dep_pc = "idle"
    /\ run = 1
    /\ os_log = <<>>
    /\ first = NoSnapshot

(***************************************************************************)
(* The deploy and undeploy commands: ModManagerService.deploy and           *)
(* ModManagerService.undeploy (service.py), and the deploy command of the   *)
(* CLI (cli.py), which is the same sequence with a dry_run flag.            *)
(***************************************************************************)
\* files of the previous deployment that the state file may record
MaxPrevFiles == 1

\* the destinations of Data/ entries in the plans of the commands
SvcDests == {<<"a.esp">>, <<"Meshes", "foo.nif">>}

\* the trees a command may find before any deployment: without the game
\* root, with an empty game root, with a foreign Data/a.esp
SvcTrees ==
    {t \in InitialTrees :
        /\ t.dirs \subseteq Prefixes(data_dir)
        /\ <<"games">> \in t.dirs
        /\ t.files \subseteq {data_dir \o <<"a.esp">>}
        /\ data_dir \in t.dirs => t.files # {}}

RECURSIVE DeployAll(_, _, _, _, _, _)
\* the tree and the records a real deploy of the Data/ entries plan[i..]
\* leaves when no OS failure occurs
DeployAll(dirs, files, plan, i, m, records) ==
    IF i > Len(plan) THEN [dirs |-> dirs, files |-> files, records |-> records]
    ELSE LET src == Src("prev", i)
             dest == data_dir \o plan[i]
             r == DeployFileEffect(dirs, files, src, dest, m, "ok")
         IN  DeployAll(r.dirs, r.files, plan, i + 1, m,
                       IF r.ok THEN Append(records, DeployedFile(src, dest, m))
                       ELSE records)

\* a command is about to run: the state file records the previous deployment,
\* whose files are in the tree
InitService ==
    /\ method \in Methods
    /\ \E t \in SvcTrees, prev \in SeqsUpTo(SvcDests, MaxPrevFiles) :
          /\ game_dir \notin t.dirs => prev = <<>>
          /\ LET foreign == [f \in t.files |-> [src |-> Foreign, method |-> "copy"]]
                 d == DeployAll(t.dirs, foreign, prev, 1, method, <<>>)
             IN  /\ fs_dirs = d.dirs
                 /\ fs_files = d.files
                 /\ persisted = d.records
    /\ persisted0 = persisted
    /\ fs0_dirs = fs_dirs
    /\ fs0_files = fs_files
    /\ svc_op \in {"deploy", "undeploy"}
    /\ IF svc_op = "deploy"
       THEN /\ plan_root \in SeqsUpTo(RootDests, MaxRootFiles)
            /\ plan_data \in SeqsUpTo(SvcDests, MaxDataFiles)
            /\ dry_run \in BOOLEAN
       ELSE /\ plan_root = <<>>
            /\ plan_data = <<>>
            /\ dry_run = FALSE
    /\ svc_pc = "start"
    /\ state_deployed = <<>>
    /\ dep_pc = "command"
    /\ dep_i = 1
    /\ deployed = <<>>
    /\ conflicts = <<>>
    /\ errors = <<>>
    /\ seen_dests = <<>>
    /\ und_i = 1
    /\ removed = 0
    /\ run = 1
    /\ os_log = <<>>
    /\ first = NoSnapshot

SvcIdle ==
    /\ svc_op = "none"
    /\ svc_pc = "idle"
    /\ persisted = <<>>
    /\ persisted0 = <<>>
    /\ state_deployed = <<>>

\* what the steps of a command between two calls of the executor leave alone
svc_frame == <<fs_dirs, fs_files, fs0_dirs, fs0_files, plan_root, plan_data,
               method, dry_run, run, os_log, first, svc_op, persisted0>>

\* a plausible slip: a dry run removes the previous deployment too
RemovesPreviousAlways == persisted # <<>>

\* "if state.deployed_files and not dry_run"
RemovesPreviousReal == persisted # <<>> /\ ~dry_run

\* whether the deploy command removes the previous deployment first
RemovesPrevious == RemovesPreviousReal

\* state.load(), and the game directory does not exist: the command returns
SvcGameDirMissing ==
    /\ svc_pc = "start" /\ svc_op = "deploy"
    /\ game_dir \notin fs_dirs
    /\ state_deployed' = persisted
    /\ svc_pc' = "returned"
    /\ UNCHANGED <<svc_frame, persisted, dep_pc, dep_i, deployed, conflicts,
                   errors, seen_dests, und_i, removed>>
    /\ UNCHANGED not_svc

\* state.load(), and undeploy_files(state.deployed_files) is called
SvcUndeployPrevious ==
    /\ svc_pc = "start" /\ svc_op = "deploy"
    /\ game_dir \in fs_dirs
    /\ RemovesPrevious
    /\ state_deployed' = persisted
    /\ deployed' = persisted
    /\ und_i' = 1
    /\ removed' = 0
    /\ dep_pc' = "undeploy"
    /\ svc_pc' = "undeploying"
    /\ UNCHANGED <<svc_frame, persisted, dep_i, conflicts, errors, seen_dests>>
    /\ UNCHANGED not_svc

\* state.load(), and there is no previous deployment, or the run is a dry run
SvcKeepPrevious ==
    /\ svc_pc = "start" /\ svc_op = "deploy"
    /\ game_dir \in fs_dirs
    /\ ~RemovesPrevious
    /\ state_deployed' = persisted
    /\ svc_pc' = "classify"
    /\ UNCHANGED <<svc_frame, persisted, dep_pc, dep_i, deployed, conflicts,
                   errors, seen_dests, und_i, removed>>
    /\ UNCHANGED not_svc

\* undeploy_files has returned: state.deployed_files = [], in memory
SvcPreviousRemoved ==
    /\ svc_pc = "undeploying" /\ svc_op = "deploy"
    /\ dep_pc = "undeployed"
    /\ state_deployed' = <<>>
    /\ svc_pc' = "classify"
    /\ dep_pc' = "command"
    /\ UNCHANGED <<svc_frame, persisted, dep_i, deployed, conflicts, errors,
                   seen_dests, und_i, removed>>
    /\ UNCHANGED not_svc

\* plan.total_files
total_files == Len(plan_root) + Len(plan_data)

\* classify_files gave a plan without files: the command returns
SvcNoFiles ==
    /\ svc_pc = "classify"
    /\ total_files = 0
    /\ svc_pc' = "returned"
    /\ UNCHANGED <<svc_frame, persisted, state_deployed, dep_pc, dep_i, deployed,
                   conflicts, errors, seen_dests, und_i, removed>>
    /\ UNCHANGED not_svc

\* deploy_files(plan, game_dir, method, dry_run) is called
SvcCallDeploy ==
    /\ svc_pc = "classify"
    /\ total_files > 0
    /\ svc_pc' = "deploying"
    /\ dep_pc' = "root"
    /\ dep_i' = 1
    /\ deployed' = <<>>
    /\ conflicts' = <<>>
    /\ errors' = <<>>
    /\ seen_dests' = <<>>
    /\ UNCHANGED <<svc_frame, persisted, state_deployed, und_i, removed>>
    /\ UNCHANGED not_svc

\* deploy_files has returned: unless the run is a dry run,
\* state.deployed_files = the records of result.deployed, and state.save()
SvcSave ==
    /\ svc_pc = "deploying"
    /\ dep_pc = "deployed"
    /\ IF dry_run
       THEN UNCHANGED <<state_deployed, persisted>>
       ELSE /\ state_deployed' = deployed
            /\ persisted' = deployed
    /\ svc_pc' = "returned"
    /\ dep_pc' = "command"
    /\ UNCHANGED <<svc_frame, dep_i, deployed, conflicts, errors, seen_dests,
                   und_i, removed>>
    /\ UNCHANGED not_svc

\* the undeploy command finds no record and returns 0
SvcUndeployNothing ==
    /\ svc_pc = "start" /\ svc_op = "undeploy"
    /\ persisted = <<>>
    /\ state_deployed' = persisted
    /\ svc_pc' = "returned"
    /\ UNCHANGED <<svc_frame, persisted, dep_pc, dep_i, deployed, conflicts,
                   errors, seen_dests, und_i, removed>>
    /\ UNCHANGED not_svc

\* the undeploy command calls undeploy_files(state.deployed_files)
SvcUndeployCall ==
    /\ svc_pc = "start" /\ svc_op = "undeploy"
    /\ persisted # <<>>
    /\ state_deployed' = persisted
    /\ deployed' = persisted
    /\ und_i' = 1
    /\ removed' = 0
    /\ dep_pc' = "undeploy"
    /\ svc_pc' = "undeploying"
    /\ UNCHANGED <<svc_frame, persisted, dep_i, conflicts, errors, seen_dests>>
    /\ UNCHANGED not_svc

\* undeploy_files has returned: state.deployed_files = [], state.save()
SvcUndeploySave ==
    /\ svc_pc = "undeploying" /\ svc_op = "undeploy"
    /\ dep_pc = "undeployed"
    /\ state_deployed' = <<>>
    /\ persisted' = <<>>
    /\ svc_pc' = "returned"
    /\ dep_pc' = "command"
    /\ UNCHANGED <<svc_frame, dep_i, deployed, conflicts, errors, seen_dests,
                   und_i, removed>>
    /\ UNCHANGED not_svc

\* the process is killed between two file operations of a command: nothing
\* more is done, the tree and the state file stay as they are
Interrupt ==
    /\ svc_pc \in {"undeploying", "classify", "deploying"}
    /\ dep_pc \in {"undeploy", "undeployed", "command", "root", "data", "deployed"}
    /\ svc_pc' = "interrupted"
    /\ dep_pc' = "interrupted"
    /\ UNCHANGED <<svc_frame, persisted, state_deployed, dep_i, deployed,
                   conflicts, errors, seen_dests, und_i, removed>>
    /\ UNCHANGED not_svc

(***************************************************************************)
(* Plugin listing: merge_plugin_orders over the result of                   *)
(* sort_plugins_with_loot (loot_sort.py).                                   *)
(***************************************************************************)
\* entries of manifest.plugins
MaxPlugins == 2

\* plugin file names, as strings of character codes: "a", "A", "b"
PluginFiles == {<<97>>, <<65>>, <<98>>}

\* "enabled" of an entry of manifest.plugins: true, false, or no such key
EnabledValues == {"true", "false", "absent"}

\* an entry of manifest.plugins; the filename is "" when the entry has none
PluginEntry == [filename : PluginFiles \cup {<<>>}, enabled : EnabledValues]

\* what sort_plugins_with_loot returns: None, or the order libloot gives the
\* plugin files found in the mods directory, which are a non-empty set of
\* names that need not be the names the collection declares
LootUnavailable == [sorted |-> FALSE, order |-> <<>>]

LootResults ==
    {LootUnavailable} \cup
    {[sorted |-> TRUE, order |-> o] :
        o \in UNION {Perms(found) : found \in (SUBSET PluginFiles) \ {{}}}}

\* a plausible slip: every plugin is taken as enabled
EnabledAlways(p) == TRUE

\* p.get("enabled", True)
EnabledOrDefault(p) == p.enabled # "false"

IsEnabled(p) == EnabledOrDefault(p)

\* the set enabled: the lower-cased filenames of the enabled entries
EnabledSet(plugins) ==
    {Lower(plugins[i].filename) : i \in {j \in DOMAIN plugins : IsEnabled(plugins[j])}}

\* f"{prefix}{plugin}" with prefix "*" or ""
Line(star, name) == IF star THEN <<42>> \o name ELSE name

\* the branch "if loot_sorted": LOOT's order, flags from the collection
MergeLoot(plugins, order) ==
    [i \in DOMAIN order |-> Line(Lower(order[i]) \in EnabledSet(plugins), order[i])]

RECURSIVE MergeDeclared(_)
\* the else branch: the declared order, entries without filename left out
MergeDeclared(plugins) ==
    IF plugins = <<>> THEN <<>>
    ELSE LET p == Head(plugins)
         IN  (IF p.filename = <<>> THEN <<>>
              ELSE <<Line(IsEnabled(p), p.filename)>>) \o MergeDeclared(Tail(plugins))

merge_plugin_orders(plugins, loot) ==
    IF loot.sorted /\ loot.order # <<>>
    THEN MergeLoot(plugins, loot.order)
    ELSE MergeDeclared(plugins)

\* merged = merge_plugin_orders(manifest.plugins, loot_sorted)
MergePlugins ==
    /\ plug_pc = "start"
    /\ merged' = merge_plugin_orders(collection_plugins, loot_sorted)
    /\ plug_pc' = "done"
    /\ UNCHANGED <<collection_plugins, loot_sorted>>
    /\ UNCHANGED not_plugins

InitPlugins ==
    /\ collection_plugins \in SeqsUpTo(PluginEntry, MaxPlugins)
    /\ loot_sorted \in LootResults
    /\ merged = <<>>
    /\ plug_pc = "start"

PluginsIdle ==
    /\ collection_plugins = <<>>
    /\ loot_sorted = LootUnavailable
    /\ merged = <<>>
    /\ plug_pc = "idle"

(***************************************************************************)
(* Commands on the state file and the load order files:                    *)
(* ModManagerService.regenerate_load_order and ModManagerService.sync with  *)
(* _generate_load_order (service.py), CollectionState.load and save         *)
(* (state.py).                                                              *)
(***************************************************************************)
\* mods of the collection that a sync downloads
MaxSyncMods == 2

SyncModIds == {1, 2}

\* no state file in the mods directory
NoStateFile == [exists |-> FALSE, valid |-> FALSE, manifest |-> FALSE, mods |-> {}]

\* a state file that is no JSON
BadStateFile == [exists |-> TRUE, valid |-> FALSE, manifest |-> FALSE, mods |-> {}]

\* the state files a command may find: none, an unreadable one, or one with
\* or without manifest_data and with some mods
StateFiles ==
    {NoStateFile, BadStateFile} \cup
    {[exists |-> TRUE, valid |-> TRUE, manifest |-> m, mods |-> ms] :
        m \in BOOLEAN, ms \in SUBSET SyncModIds}

\* a new CollectionState: manifest_data = None, mods = {}
EmptyState == [manifest |-> FALSE, mods |-> {}]

\* CollectionState.load
Loaded(file) == [manifest |-> file.manifest, mods |-> file.mods]

\* CollectionState.save
Saved(st) == [exists |-> TRUE, valid |-> TRUE, manifest |-> st.manifest,
              mods |-> st.mods]

\* how the manifest step of a sync ends: not run (no_load_order), no
\* download_link, ManifestError, an exception of generate, or success
ManifestOutcomes == {"skip", "no_link", "malformed", "generate_fails", "ok"}

\* a plausible slip: the check of manifest_data is left out
HasManifestAlways(st) == TRUE

\* "if not state.manifest_data" is false
HasManifestData(st) == st.manifest

HasManifest(st) == HasManifestData(st)

\* state.load() raises StateError: no state file, or no JSON in it
RegenLoadFails ==
    /\ cmd_op = "regenerate" /\ cmd_pc = "start"
    /\ ~(state_file.exists /\ state_file.valid)
    /\ cmd_result' = "error"
    /\ cmd_pc' = "done"
    /\ UNCHANGED <<cmd_op, state_file, state_file0, cmd_state, sync_mods, sync_i,
                   manifest_in, lo_written>>
    /\ UNCHANGED not_cmd

\* state.load()
RegenLoad ==
    /\ cmd_op = "regenerate" /\ cmd_pc = "start"
    /\ state_file.exists /\ state_file.valid
    /\ cmd_state' = Loaded(state_file)
    /\ cmd_pc' = "loaded"
    /\ UNCHANGED <<cmd_op, state_file, state_file0, sync_mods, sync_i,
                   manifest_in, lo_written, cmd_result>>
    /\ UNCHANGED not_cmd

\* raise StateError("No cached manifest found. ...")
RegenNoManifest ==
    /\ cmd_op = "regenerate" /\ cmd_pc = "loaded"
    /\ ~HasManifest(cmd_state)
    /\ cmd_result' = "error"
    /\ cmd_pc' = "done"
    /\ UNCHANGED <<cmd_op, state_file, state_file0, cmd_state, sync_mods, sync_i,
                   manifest_in, lo_written>>
    /\ UNCHANGED not_cmd

\* _regen_load_order_from_state: generator.generate writes load-order.txt and
\* may write plugins.txt; an exception of it is swallowed and [] returned
RegenGenerate ==
    /\ cmd_op = "regenerate" /\ cmd_pc = "loaded"
    /\ HasManifest(cmd_state)
    /\ lo_written' \in
           IF manifest_in = "ok"
           THEN {{"load-order.txt"}, {"load-order.txt", "plugins.txt"}}
           ELSE {{}, {"load-order.txt"}}
    /\ cmd_result' = "ok"
    /\ cmd_pc' = "returned"
    /\ UNCHANGED <<cmd_op, state_file, state_file0, cmd_state, sync_mods, sync_i,
                   manifest_in>>
    /\ UNCHANGED not_cmd

\* no premium membership (NexusPremiumRequired), or the API call fails
SyncRefused ==
    /\ cmd_op = "sync" /\ cmd_pc = "start"
    /\ cmd_result' = "error"
    /\ cmd_pc' = "done"
    /\ UNCHANGED <<cmd_op, state_file, state_file0, cmd_state, sync_mods, sync_i,
                   manifest_in, lo_written>>
    /\ UNCHANGED not_cmd

\* "if not mods: return SyncResult(0, 0, [], [])"
SyncNoMods ==
    /\ cmd_op = "sync" /\ cmd_pc = "start"
    /\ sync_mods = <<>>
    /\ cmd_result' = "ok"
    /\ cmd_pc' = "done"
    /\ UNCHANGED <<cmd_op, state_file, state_file0, cmd_state, sync_mods, sync_i,
                   manifest_in, lo_written>>
    /\ UNCHANGED not_cmd

\* "if state.exists(): state.load()", which raises on a file that is no JSON
SyncInitState ==
    /\ cmd_op = "sync" /\ cmd_pc = "start"
    /\ sync_mods # <<>>
    /\ IF state_file.exists /\ ~state_file.valid
       THEN /\ cmd_result' = "error"
            /\ cmd_pc' = "done"
            /\ UNCHANGED cmd_state
       ELSE /\ cmd_state' = IF state_file.exists THEN Loaded(state_file)
                            ELSE EmptyState
            /\ cmd_pc' = "extract"
            /\ UNCHANGED cmd_result
    /\ UNCHANGED <<cmd_op, state_file, state_file0, sync_mods, sync_i,
                   manifest_in, lo_written>>
    /\ UNCHANGED not_cmd

\* one iteration of the extract loop: state.add_mod(mod_info), or an
\* ExtractionError that is appended to errors
SyncExtract ==
    /\ cmd_op = "sync" /\ cmd_pc = "extract"
    /\ sync_i <= Len(sync_mods)
    /\ \E extracted \in BOOLEAN :
          cmd_state' = IF extracted
                       THEN [cmd_state EXCEPT !.mods = @ \cup {sync_mods[sync_i]}]
                       ELSE cmd_state
    /\ sync_i' = sync_i + 1
    /\ UNCHANGED <<cmd_op, cmd_pc, state_file, state_file0, sync_mods,
                   manifest_in, lo_written, cmd_result>>
    /\ UNCHANGED not_cmd

\* state.save() after the loop
SyncSave ==
    /\ cmd_op = "sync" /\ cmd_pc = "extract"
    /\ sync_i > Len(sync_mods)
    /\ state_file' = Saved(cmd_state)
    /\ cmd_pc' = "loadorder"
    /\ UNCHANGED <<cmd_op, state_file0, cmd_state, sync_mods, sync_i,
                   manifest_in, lo_written, cmd_result>>
    /\ UNCHANGED not_cmd

\* _generate_load_order returns [] and writes nothing: it is not called, the
\* collection has no download_link, or "except ManifestError: return []"
SyncNoLoadOrder ==
    /\ cmd_op = "sync" /\ cmd_pc = "loadorder"
    /\ manifest_in \in {"skip", "no_link", "malformed"}
    /\ cmd_pc' = "return"
    /\ UNCHANGED <<cmd_op, state_file, state_file0, cmd_state, sync_mods, sync_i,
                   manifest_in, lo_written, cmd_result>>
    /\ UNCHANGED not_cmd

\* _generate_load_order with a parsed manifest: generate writes the files,
\* the manifest is cached and the state saved; an exception of generate is
\* swallowed and [] returned
SyncGenerate ==
    /\ cmd_op = "sync" /\ cmd_pc = "loadorder"
    /\ manifest_in \in {"generate_fails", "ok"}
    /\ IF manifest_in = "ok"
       THEN /\ lo_written' \in {{"load-order.txt"}, {"load-order.txt", "plugins.txt"}}
            /\ cmd_state' = [cmd_state EXCEPT !.manifest = TRUE]
            /\ state_file' = Saved(cmd_state')
       ELSE /\ lo_written' \in {{}, {"load-order.txt"}}
            /\ UNCHANGED <<cmd_state, state_file>>
    /\ cmd_pc' = "return"
    /\ UNCHANGED <<cmd_op, state_file0, sync_mods, sync_i, manifest_in, cmd_result>>
    /\ UNCHANGED not_cmd

\* return SyncResult(...)
SyncReturn ==
    /\ cmd_op = "sync" /\ cmd_pc = "return"
    /\ cmd_result' = "ok"
    /\ cmd_pc' = "returned"
    /\ UNCHANGED <<cmd_op, state_file, state_file0, cmd_state, sync_mods, sync_i,
                   manifest_in, lo_written>>
    /\ UNCHANGED not_cmd

InitCmd ==
    /\ cmd_op \in {"regenerate", "sync"}
    /\ state_file \in StateFiles
    /\ state_file0 = state_file
    /\ cmd_state = EmptyState
    /\ IF cmd_op = "sync"
       THEN /\ sync_mods \in SeqsUpTo(SyncModIds, MaxSyncMods)
            /\ manifest_in \in ManifestOutcomes
       ELSE /\ sync_mods = <<>>
            /\ manifest_in \in {"generate_fails", "ok"}
    /\ sync_i = 1
    /\ lo_written = {}
    /\ cmd_result = "none"
    /\ cmd_pc = "start"

CmdIdle ==
    /\ cmd_op = "none"
    /\ cmd_pc = "idle"
    /\ state_file = NoStateFile
    /\ state_file0 = NoStateFile
    /\ cmd_state = EmptyState
    /\ sync_mods = <<>>
    /\ sync_i = 1
    /\ manifest_in = "skip"
    /\ lo_written = {}
    /\ cmd_result = "none"

(***************************************************************************)
(* Classification of the staged files: classify_files and classify_file    *)
(* (deploy.py).  A path is the sequence of its segments and a segment the   *)
(* sequence of its characters.                                              *)
(***************************************************************************)
\* segments of a staged path, relative to the staging directory
MaxDepth == 4

BETHESDA_EXTENSIONS ==
    {<<".", "e", "s", "m">>, <<".", "e", "s", "p">>, <<".", "e", "s", "l">>,
     <<".", "b", "a", "2">>}

ASSET_DIRS ==
    {<<"g", "e", "o", "m", "e", "t", "r", "i", "e", "s">>,
     <<"t", "e", "x", "t", "u", "r", "e", "s">>, <<"m", "e", "s", "h", "e", "s">>,
     <<"s", "c", "r", "i", "p", "t", "s">>, <<"s", "o", "u", "n", "d">>,
     <<"m", "a", "t", "e", "r", "i", "a", "l", "s">>,
     <<"i", "n", "t", "e", "r", "f", "a", "c", "e">>, <<"v", "i", "d", "e", "o">>,
     <<"t", "e", "r", "r", "a", "i", "n">>, <<"s", "t", "r", "i", "n", "g", "s">>,
     <<"m", "u", "s", "i", "c">>, <<"s", "h", "a", "d", "e", "r", "s", "f", "x">>,
     <<"v", "i", "s">>, <<"s", "e", "q">>,
     <<"l", "o", "d", "s", "e", "t", "t", "i", "n", "g", "s">>,
     <<"g", "r", "a", "s", "s">>, <<"f", "a", "c", "e", "g", "e", "n">>,
     <<"d", "i", "a", "l", "o", "g", "u", "e", "v", "i", "e", "w", "s">>,
     <<"s", "o", "u", "r", "c", "e">>}

SKIP_PATTERNS ==
    {<<"f", "o", "m", "o", "d">>,
     <<".", "n", "e", "x", "u", "s", "-", "s", "t", "a", "t", "e", ".", "j", "s", "o", "n">>,
     <<"l", "o", "a", "d", "-", "o", "r", "d", "e", "r", ".", "t", "x", "t">>,
     <<"p", "l", "u", "g", "i", "n", "s", ".", "t", "x", "t">>,
     <<"_", "_", "f", "o", "l", "d", "e", "r", "_", "m", "a", "n", "a", "g", "e", "d", "_", "b", "y", "_", "v", "o", "r", "t", "e", "x">>}

SKIP_EXTENSIONS ==
    {<<".", "t", "x", "t">>, <<".", "m", "d">>, <<".", "j", "p", "g">>,
     <<".", "j", "p", "e", "g">>, <<".", "p", "n", "g">>, <<".", "g", "i", "f">>,
     <<".", "p", "d", "f">>, <<".", "l", "o", "g">>}

\* the directories of the staging directory: "00 - Main", "sfse_0_2_18",
\* "Data", "SFSE", "Meshes", "docs", ".git"
DirNames ==
    {<<"0", "0", " ", "-", " ", "M", "a", "i", "n">>,
     <<"s", "f", "s", "e", "_", "0", "_", "2", "_", "1", "8">>,
     <<"D", "a", "t", "a">>,
     <<"S", "F", "S", "E">>,
     <<"M", "e", "s", "h", "e", "s">>,
     <<"d", "o", "c", "s">>,
     <<".", "g", "i", "t">>}

\* the files in them: "foo.nif", "sfse_loader.exe", "readme.txt", "a.esp",
\* "x.dll", "00_a.esp"
FileNames ==
    {<<"f", "o", "o", ".", "n", "i", "f">>,
     <<"s", "f", "s", "e", "_", "l", "o", "a", "d", "e", "r", ".", "e", "x", "e">>,
     <<"r", "e", "a", "d", "m", "e", ".", "t", "x", "t">>,
     <<"a", ".", "e", "s", "p">>,
     <<"x", ".", "d", "l", "l">>,
     <<"0", "0", "_", "a", ".", "e", "s", "p">>}

\* the paths that mods_dir.rglob yields: directories and then a file
StagedPaths ==
    {dirs \o <<f>> : dirs \in SeqsUpTo(DirNames, MaxDepth - 1), f \in FileNames}

UpperLetters == <<"A", "B", "C", "D", "E", "F", "G", "H", "I", "J", "K", "L", "M">> \o
                <<"N", "O", "P", "Q", "R", "S", "T", "U", "V", "W", "X", "Y", "Z">>

LowerLetters == <<"a", "b", "c", "d", "e", "f", "g", "h", "i", "j", "k", "l", "m">> \o
                <<"n", "o", "p", "q", "r", "s", "t", "u", "v", "w", "x", "y", "z">>

Digits == {"0", "1", "2", "3", "4", "5", "6", "7", "8", "9"}

\* the characters of the model that \s matches
Whitespace == {" "}

\* str.lower on one character
CharLower(c) ==
    IF \E i \in 1..Len(UpperLetters) : UpperLetters[i] = c
    THEN LowerLetters[CHOOSE i \in 1..Len(UpperLetters) : UpperLetters[i] = c]
    ELSE c

\* str.lower
StrLower(seg) == [i \in 1..Len(seg) |-> CharLower(seg[i])]

\* str.startswith
StartsWith(seg, prefix) ==
    /\ Len(seg) >= Len(prefix)
    /\ SubSeq(seg, 1, Len(prefix)) = prefix

\* the first position from i on that holds no whitespace
RECURSIVE SkipWhitespace(_, _)
SkipWhitespace(seg, i) ==
    IF i <= Len(seg) /\ seg[i] \in Whitespace
    THEN SkipWhitespace(seg, i + 1)
    ELSE i

\* re.compile(r"^\d{2,3}\s*[-_]\s*").match(seg)
NUMBERED_OPTION_RE(seg) ==
    \E n \in {2, 3} :
        /\ Len(seg) > n
        /\ \A i \in 1..n : seg[i] \in Digits
        /\ SkipWhitespace(seg, n + 1) <= Len(seg)
        /\ seg[SkipWhitespace(seg, n + 1)] \in {"-", "_"}

\* re.compile(r"^sfse_[\d_]+$", re.IGNORECASE).match(seg)
SFSE_VERSION_DIR_RE(seg) ==
    /\ Len(seg) > 5
    /\ StrLower(SubSeq(seg, 1, 5)) = <<"s", "f", "s", "e", "_">>
    /\ \A i \in 6..Len(seg) : seg[i] \in Digits \cup {"_"}

\* a plausible slip: only the numbered option folders are stripped
WrapperNumberedOnly(seg) == NUMBERED_OPTION_RE(seg)

\* the condition of the while loop of classify_files on the first segment
WrapperEither(seg) == NUMBERED_OPTION_RE(seg) \/ SFSE_VERSION_DIR_RE(seg)

IsWrapper(seg) == WrapperEither(seg)

\* the position of the last "." of a name, 0 if it has none
LastDot(name) ==
    IF \E i \in 1..Len(name) : name[i] = "."
    THEN CHOOSE i \in 1..Len(name) :
             name[i] = "." /\ \A j \in (i + 1)..Len(name) : name[j] # "."
    ELSE 0

\* PurePath.suffix: from the last dot on, unless the name begins or ends there
Suffix(name) ==
    IF LastDot(name) > 1 /\ LastDot(name) < Len(name)
    THEN SubSeq(name, LastDot(name), Len(name))
    ELSE <<>>

\* rel_path.name
FileName(parts) == parts[Len(parts)]

lower_parts(parts) == [i \in 1..Len(parts) |-> StrLower(parts[i])]

suffix_lower(parts) == StrLower(Suffix(FileName(parts)))

\* the three "return None" of classify_file: metadata and docs
IsSkipped(parts) ==
    \/ StrLower(FileName(parts)) \in SKIP_PATTERNS
    \/ StartsWith(StrLower(FileName(parts)), <<"r", "e", "a", "d", "m", "e">>)
    \/ suffix_lower(parts) \in SKIP_EXTENSIONS \ BETHESDA_EXTENSIONS
    \/ \E i \in 1..Len(parts) : StrLower(parts[i]) \in SKIP_PATTERNS

\* name_lower.startswith("sfse_") and suffix_lower in (".exe", ".dll")
IsLoaderName(parts) ==
    /\ StartsWith(StrLower(FileName(parts)), <<"s", "f", "s", "e", "_">>)
    /\ suffix_lower(parts) \in {<<".", "e", "x", "e">>, <<".", "d", "l", "l">>}

\* parts[i:], for a position i counted from 1
From(parts, i) == SubSeq(parts, i, Len(parts))

\* lower_parts.index(seg), counted from 1; 0 if seg is no part
IndexOf(lparts, seg) ==
    IF \E i \in 1..Len(lparts) : lparts[i] = seg
    THEN CHOOSE i \in 1..Len(lparts) :
             lparts[i] = seg /\ \A j \in 1..(i - 1) : lparts[j] # seg
    ELSE 0

sfse_idx(parts) == IndexOf(lower_parts(parts), <<"s", "f", "s", "e">>)

\* the first position of a part that names an asset directory, 0 if none
AssetIdx(parts) ==
    IF \E i \in 1..Len(parts) : lower_parts(parts)[i] \in ASSET_DIRS
    THEN CHOOSE i \in 1..Len(parts) :
             /\ lower_parts(parts)[i] \in ASSET_DIRS
             /\ \A j \in 1..(i - 1) : lower_parts(parts)[j] \notin ASSET_DIRS
    ELSE 0

\* the "SFSE/Plugins at various depths" rule returns: SFSE is the first
\* part, or the second after data
SfseRuleApplies(parts) ==
    \/ sfse_idx(parts) = 1
    \/ sfse_idx(parts) = 2 /\ lower_parts(parts)[1] = <<"d", "a", "t", "a">>

\* classify_file from the SFSE rule on
LaterRules(parts) ==
    IF SfseRuleApplies(parts)
    THEN [base |-> "data", dest |-> From(parts, sfse_idx(parts))]
    ELSE IF lower_parts(parts)[1] = <<"d", "a", "t", "a">> /\ Len(parts) > 1
    THEN [base |-> "data", dest |-> Tail(parts)]
    ELSE IF Len(parts) = 1 /\ suffix_lower(parts) \in BETHESDA_EXTENSIONS
    THEN [base |-> "data", dest |-> <<FileName(parts)>>]
    ELSE IF lower_parts(parts)[1] \in ASSET_DIRS
    THEN [base |-> "data", dest |-> parts]
    ELSE IF AssetIdx(parts) > 0
    THEN [base |-> "data", dest |-> From(parts, AssetIdx(parts))]
    ELSE IF Len(parts) = 1 /\ suffix_lower(parts) = <<".", "d", "l", "l">>
    THEN [base |-> "root", dest |-> <<FileName(parts)>>]
    ELSE IF Len(parts) = 1 /\ suffix_lower(parts) = <<".", "i", "n", "i">>
    THEN [base |-> "root", dest |-> <<FileName(parts)>>]
    ELSE [base |-> "data", dest |-> parts]

\* classify_file(rel_path, game_domain); base "skip" stands for None
classify_file(parts) ==
    IF IsSkipped(parts)
    THEN [base |-> "skip", dest |-> <<>>]
    ELSE IF IsLoaderName(parts)
    THEN [base |-> "root", dest |-> <<FileName(parts)>>]
    ELSE LaterRules(parts)

\* no file classified yet
NoEntry == [base |-> "none", dest |-> <<>>, reason |-> "none"]

\* plan.skipped.append((rel, reason))
SkippedEntry(reason) == [base |-> "skipped", dest |-> <<>>, reason |-> reason]

\* plan.game_root_files.append or plan.data_files.append
PlanEntry(classified) ==
    [base |-> classified.base, dest |-> classified.dest, reason |-> "none"]

\* "if parts[0].startswith('.')": hidden and tool files
SkipHidden ==
    /\ cls_pc = "start"
    /\ StartsWith(cls_rel[1], <<".">>)
    /\ cls_plan' = SkippedEntry("hidden file")
    /\ cls_pc' = "done"
    /\ UNCHANGED <<cls_rel, effective_parts>>
    /\ UNCHANGED not_classify

\* effective_parts = list(parts)
StartStrip ==
    /\ cls_pc = "start"
    /\ ~StartsWith(cls_rel[1], <<".">>)
    /\ effective_parts' = cls_rel
    /\ cls_pc' = "strip"
    /\ UNCHANGED <<cls_rel, cls_plan>>
    /\ UNCHANGED not_classify

\* one iteration of the while loop: effective_parts = effective_parts[1:]
StripWrapper ==
    /\ cls_pc = "strip"
    /\ effective_parts # <<>>
    /\ IsWrapper(Head(effective_parts))
    /\ effective_parts' = Tail(effective_parts)
    /\ UNCHANGED <<cls_rel, cls_plan, cls_pc>>
    /\ UNCHANGED not_classify

\* "if not effective_parts"
SkipEmpty ==
    /\ cls_pc = "strip"
    /\ effective_parts = <<>>
    /\ cls_plan' = SkippedEntry("empty after stripping option folders")
    /\ cls_pc' = "done"
    /\ UNCHANGED <<cls_rel, effective_parts>>
    /\ UNCHANGED not_classify

\* classify_file(effective_rel, game_domain) and the append to the plan
ClassifyEffective ==
    /\ cls_pc = "strip"
    /\ effective_parts # <<>>
    /\ ~IsWrapper(Head(effective_parts))
    /\ cls_plan' = IF classify_file(effective_parts).base = "skip"
                   THEN SkippedEntry("metadata/docs")
                   ELSE PlanEntry(classify_file(effective_parts))
    /\ cls_pc' = "done"
    /\ UNCHANGED <<cls_rel, effective_parts>>
    /\ UNCHANGED not_classify

InitClassify ==
    /\ cls_rel \in StagedPaths
    /\ effective_parts = <<>>
    /\ cls_plan = NoEntry
    /\ cls_pc = "start"

ClassifyIdle ==
    /\ cls_rel = <<>>
    /\ effective_parts = <<>>
    /\ cls_plan = NoEntry
    /\ cls_pc = "idle"

(***************************************************************************)
(* Registration of mods in the state: ModManagerService.add_local and      *)
(* add_mod (service.py), CollectionState.add_mod (state.py).               *)
(***************************************************************************)
\* operations on one state file
MaxOps == 3

\* mod ids of the Nexus
NexusModIds == {1, 2}

NexusFileIds == {5, 6}

\* "mod_name" of a local mod
LocalNames == {"x", "y"}

\* state.mods[synthetic_id].phase = 999
ManualPhase == 999

\* the fields of a ModState that the operations set
ModRecord(name, file_id, manual, phase) ==
    [name |-> name, file_id |-> file_id, manual |-> manual, phase |-> phase]

\* self.mods[mod_id] = ModState(...): the record is replaced as a whole
PutMod(mods, mod_id, rec) ==
    [k \in DOMAIN mods \cup {mod_id} |-> IF k = mod_id THEN rec ELSE mods[k]]

\* "while synthetic_id in existing_ids: synthetic_id -= 1", from candidate on
RECURSIVE FirstFree(_, _)
FirstFree(candidate, existing_ids) ==
    IF candidate \in existing_ids
    THEN FirstFree(candidate - 1, existing_ids)
    ELSE candidate

\* a plausible slip: the loop is left out
SyntheticIdFirst(existing_ids) == 0 - 1

\* synthetic_id = -1, then the loop
SyntheticIdFree(existing_ids) == FirstFree(0 - 1, existing_ids)

synthetic_id(existing_ids) == SyntheticIdFree(existing_ids)

\* state.add_mod(mod_info) of sync and update: a mod of the collection
AddCollectionMod ==
    /\ loc_n < MaxOps
    /\ \E mod_id \in NexusModIds, file_id \in NexusFileIds :
          loc_mods' = PutMod(loc_mods, mod_id, ModRecord("n", file_id, FALSE, 0))
    /\ loc_prev' = loc_mods
    /\ loc_op' = "add_mod"
    /\ loc_n' = loc_n + 1
    /\ UNCHANGED <<loc_ret, loc_local>>
    /\ UNCHANGED not_local

\* ModManagerService.add_mod: a mod of the Nexus added by URL, registered as
\* manual with phase 999
AddModByUrl ==
    /\ loc_n < MaxOps
    /\ \E mod_id \in NexusModIds, file_id \in NexusFileIds :
          loc_mods' = PutMod(loc_mods, mod_id,
                             ModRecord("n", file_id, TRUE, ManualPhase))
    /\ loc_prev' = loc_mods
    /\ loc_op' = "add_url"
    /\ loc_n' = loc_n + 1
    /\ UNCHANGED <<loc_ret, loc_local>>
    /\ UNCHANGED not_local

\* ModManagerService.add_local(name, mods_dir)
AddLocal ==
    /\ loc_n < MaxOps
    /\ \E name \in LocalNames :
          loc_mods' = PutMod(loc_mods, synthetic_id(DOMAIN loc_mods),
                             ModRecord(name, 0, TRUE, ManualPhase))
    /\ loc_ret' = synthetic_id(DOMAIN loc_mods)
    /\ loc_local' = loc_local \cup {synthetic_id(DOMAIN loc_mods)}
    /\ loc_prev' = loc_mods
    /\ loc_op' = "add_local"
    /\ loc_n' = loc_n + 1
    /\ UNCHANGED not_local

\* the states a first operation may find: no mod, a mod of the collection,
\* or a local mod that is left after a lower id has been removed
InitialMods ==
    {<<>>,
     PutMod(<<>>, 1, ModRecord("n", 5, FALSE, 0)),
     PutMod(<<>>, 0 - 2, ModRecord("x", 0, TRUE, ManualPhase))}

InitLocal ==
    /\ loc_mods \in InitialMods
    /\ loc_prev = loc_mods
    /\ loc_op = "none"
    /\ loc_ret = 0
    /\ loc_local = {}
    /\ loc_n = 0

LocalIdle ==
    /\ loc_mods = <<>>
    /\ loc_prev = <<>>
    /\ loc_op = "idle"
    /\ loc_ret = 0
    /\ loc_local = {}
    /\ loc_n = 0

(***************************************************************************)
(* An update run in which every download and extraction succeeds, and the  *)
(* comparison of its result with the same mod list:                        *)
(* ModManagerService.update (service.py), CollectionState.add_mod and       *)
(* compare_with_collection (state.py).                                      *)
(***************************************************************************)
\* the four lists that compare_with_collection returns
Compare(installed, latest) ==
    [to_install |-> BucketList(installed, latest, "to_install"),
     to_update  |-> BucketList(installed, latest, "to_update"),
     up_to_date |-> BucketList(installed, latest, "up_to_date"),
     to_remove  |-> RemoveSet(installed, latest)]

NoCompare ==
    [to_install |-> <<>>, to_update |-> <<>>, up_to_date |-> <<>>,
     to_remove |-> {}]

\* CollectionState.add_mod: self.mods[mod_id] = ModState(...), with manual
\* from mod_info.get("manual", False)
add_mod(installed, mod) ==
    [k \in DOMAIN installed \cup {mod.mod_id} |->
        IF k = mod.mod_id
        THEN [file_id |-> mod.file_id, version |-> mod.version, manual |-> FALSE]
        ELSE installed[k]]

\* the installed states of an update: those of the diff engine, at one version
UpdateStates == {s \in InstalledStates : \A k \in DOMAIN s : s[k].version = "1.0"}

\* state.compare_with_collection(mods); mods_to_download = to_install + to_update
UpdateCompare ==
    /\ rec_pc = "start"
    /\ rec_first' = Compare(rec_state, rec_latest)
    /\ rec_queue' = rec_first'.to_install \o rec_first'.to_update
    /\ rec_pc' = "extract"
    /\ UNCHANGED <<rec_state0, rec_state, rec_latest, rec_second>>
    /\ UNCHANGED not_reconcile

\* one iteration of the loop over the results: state.add_mod(mod_info)
UpdateAddMod ==
    /\ rec_pc = "extract"
    /\ rec_queue # <<>>
    /\ rec_state' = add_mod(rec_state, Head(rec_queue))
    /\ rec_queue' = Tail(rec_queue)
    /\ UNCHANGED <<rec_state0, rec_latest, rec_first, rec_second, rec_pc>>
    /\ UNCHANGED not_reconcile

\* state.save() and the return of the update
UpdateSave ==
    /\ rec_pc = "extract"
    /\ rec_queue = <<>>
    /\ rec_pc' = "saved"
    /\ UNCHANGED <<rec_state0, rec_state, rec_latest, rec_queue, rec_first,
                   rec_second>>
    /\ UNCHANGED not_reconcile

\* compare_with_collection of the next update, on the same mod list
CompareAgain ==
    /\ rec_pc = "saved"
    /\ rec_second' = Compare(rec_state, rec_latest)
    /\ rec_pc' = "done"
    /\ UNCHANGED <<rec_state0, rec_state, rec_latest, rec_queue, rec_first>>
    /\ UNCHANGED not_reconcile

InitReconcile ==
    /\ rec_state0 \in UpdateStates
    /\ rec_state = rec_state0
    /\ rec_latest \in SeqsUpTo(CollectionMod, MaxLatest)
    /\ rec_queue = <<>>
    /\ rec_first = NoCompare
    /\ rec_second = NoCompare
    /\ rec_pc = "start"

ReconcileIdle ==
    /\ rec_state0 = <<>>
    /\ rec_state = <<>>
    /\ rec_latest = <<>>
    /\ rec_queue = <<>>
    /\ rec_first = NoCompare
    /\ rec_second = NoCompare
    /\ rec_pc = "idle"

(***************************************************************************)
(* The web application: the routes that start a state-mutating operation   *)
(* as a background task (web/app.py) and TaskManager (web/tasks.py).        *)
(***************************************************************************)
\* tasks that the routes create
MaxTasks == 2

\* the operations of the routes /api/update, /api/add, /api/deploy and
\* /api/undeploy
WebOperations == {"update", "add_mod", "deploy", "undeploy"}

\* the state file: the mods it lists and whether it lists deployed files
WebState(mods, has_deployed) == [mods |-> mods, deployed |-> has_deployed]

\* what the operation saves, from the state that it loaded
Mutated(operation, st) ==
    IF operation = "update" THEN WebState(st.mods \cup {1}, st.deployed)
    ELSE IF operation = "add_mod" THEN WebState(st.mods \cup {2}, st.deployed)
    ELSE IF operation = "deploy" THEN WebState(st.mods, TRUE)
    ELSE WebState(st.mods, FALSE)

\* TaskInfo(id, operation), status "pending"
NewTask(operation) ==
    [operation |-> operation, status |-> "pending",
     state |-> WebState({}, FALSE), loaded_at |-> 0]

\* the tasks whose thread has loaded the state and not yet ended
Running == {t \in DOMAIN web_tasks : web_tasks[t].status = "running"}

\* a route: tasks.create(operation) and tasks.run_in_background(task_id, run),
\* which starts the thread whatever the other tasks do
ApiRequest ==
    /\ Len(web_tasks) < MaxTasks
    /\ \E operation \in WebOperations :
          web_tasks' = Append(web_tasks, NewTask(operation))
    /\ UNCHANGED <<web_file, web_saves, web_overwrote>>
    /\ UNCHANGED not_web

\* the thread begins: task.status = "running", and the operation's
\* state.load()
TaskLoad ==
    /\ \E t \in DOMAIN web_tasks :
          /\ web_tasks[t].status = "pending"
          /\ web_tasks' = [web_tasks EXCEPT ![t].status = "running",
                                            ![t].state = web_file,
                                            ![t].loaded_at = web_saves]
    /\ UNCHANGED <<web_file, web_saves, web_overwrote>>
    /\ UNCHANGED not_web

\* the operation's state.save() and TaskManager.complete
TaskSave ==
    /\ \E t \in DOMAIN web_tasks :
          /\ web_tasks[t].status = "running"
          /\ web_file' = Mutated(web_tasks[t].operation, web_tasks[t].state)
          /\ web_overwrote' = (web_overwrote \/ web_tasks[t].loaded_at # web_saves)
          /\ web_tasks' = [web_tasks EXCEPT ![t].status = "completed"]
    /\ web_saves' = web_saves + 1
    /\ UNCHANGED not_web

\* the operation raises before its save: TaskManager.fail
TaskFail ==
    /\ \E t \in DOMAIN web_tasks :
          /\ web_tasks[t].status = "running"
          /\ web_tasks' = [web_tasks EXCEPT ![t].status = "failed"]
    /\ UNCHANGED <<web_file, web_saves, web_overwrote>>
    /\ UNCHANGED not_web

\* the state files that the application starts on
InitWeb ==
    /\ web_tasks = <<>>
    /\ web_file \in {WebState(mods, has_deployed) :
                        mods \in SUBSET {1, 2}, has_deployed \in BOOLEAN}
    /\ web_saves = 0
    /\ web_overwrote = FALSE

WebIdle ==
    /\ web_tasks = <<>>
    /\ web_file = WebState({}, FALSE)
    /\ web_saves = 0
    /\ web_overwrote = FALSE

(***************************************************************************)
(* Specifications.                                                         *)
(***************************************************************************)
vars == <<diff_vars, sort_vars, deploy_vars, svc_vars, plugin_vars, cmd_vars, class_vars, local_vars, reconcile_vars, web_vars>>

InitDiffSpec == InitDiff /\ SortIdle /\ DeployIdle /\ SvcIdle /\ PluginsIdle /\ CmdIdle /\ ClassifyIdle /\ LocalIdle /\ ReconcileIdle /\ WebIdle

NextDiff == compare_with_collection

SpecDiff == InitDiffSpec /\ [][NextDiff]_vars

InitSortSpec == DiffIdle /\ InitSort /\ DeployIdle /\ SvcIdle /\ PluginsIdle /\ CmdIdle /\ ClassifyIdle /\ LocalIdle /\ ReconcileIdle /\ WebIdle

NextSort ==
    \/ ProcessRule
    \/ EndRules
    \/ ProcessRequirement
    \/ InitQueue
    \/ KahnStep
    \/ Finish

SpecSort == InitSortSpec /\ [][NextSort]_vars

InitDeploySpec == DiffIdle /\ SortIdle /\ InitDeploy /\ SvcIdle /\ PluginsIdle /\ CmdIdle /\ ClassifyIdle /\ LocalIdle /\ ReconcileIdle /\ WebIdle

NextDeploy ==
    \/ DeployRootFile
    \/ StartDataLoop
    \/ DeployDataFile
    \/ DeployReturn
    \/ UndeployStart
    \/ UndeployEntry
    \/ UndeployReturn

SpecDeploy == InitDeploySpec /\ [][NextDeploy]_vars

\* deploy called twice in a row: on a tree in which the game root exists,
\* Data may exist and a.esp is the only file that may lie in it
RedeployTrees ==
    {t \in InitialTrees :
        /\ game_dir \in t.dirs
        /\ t.dirs \subseteq Prefixes(data_dir)
        /\ t.files \subseteq {data_dir \o <<"a.esp">>}}

\* the destinations of the Data/ entries of a plan that is deployed twice
RedeployDests == {<<"a.esp">>, <<"Meshes", "foo.nif">>}

InitRedeploySpec ==
    /\ DiffIdle
    /\ SortIdle
    /\ SvcIdle
    /\ PluginsIdle
    /\ CmdIdle
    /\ ClassifyIdle
    /\ LocalIdle
    /\ ReconcileIdle
    /\ WebIdle
    /\ InitDeploy
    /\ [dirs |-> fs_dirs, files |-> DOMAIN fs_files] \in RedeployTrees
    /\ Range(plan_data) \subseteq RedeployDests

NextRedeploy ==
    \/ DeployRootFile
    \/ StartDataLoop
    \/ DeployDataFile
    \/ DeployReturn
    \/ Redeploy

SpecRedeploy == InitRedeploySpec /\ [][NextRedeploy]_vars

InitServiceSpec == DiffIdle /\ SortIdle /\ PluginsIdle /\ InitService /\ CmdIdle /\ ClassifyIdle /\ LocalIdle /\ ReconcileIdle /\ WebIdle

NextService ==
    \/ SvcGameDirMissing
    \/ SvcUndeployPrevious
    \/ SvcKeepPrevious
    \/ SvcPreviousRemoved
    \/ SvcNoFiles
    \/ SvcCallDeploy
    \/ DeployRootFile
    \/ StartDataLoop
    \/ DeployDataFile
    \/ DeployReturn
    \/ SvcSave
    \/ SvcUndeployNothing
    \/ SvcUndeployCall
    \/ UndeployEntry
    \/ UndeployReturn
    \/ SvcUndeploySave
    \/ Interrupt

SpecService == InitServiceSpec /\ [][NextService]_vars

InitPluginsSpec == DiffIdle /\ SortIdle /\ DeployIdle /\ SvcIdle /\ InitPlugins /\ CmdIdle /\ ClassifyIdle /\ LocalIdle /\ ReconcileIdle /\ WebIdle

NextPlugins == MergePlugins

SpecPlugins == InitPluginsSpec /\ [][NextPlugins]_vars

InitCmdSpec == DiffIdle /\ SortIdle /\ DeployIdle /\ SvcIdle /\ PluginsIdle /\ InitCmd /\ ClassifyIdle /\ LocalIdle /\ ReconcileIdle /\ WebIdle

NextCmd ==
    \/ RegenLoadFails
    \/ RegenLoad
    \/ RegenNoManifest
    \/ RegenGenerate
    \/ SyncRefused
    \/ SyncNoMods
    \/ SyncInitState
    \/ SyncExtract
    \/ SyncSave
    \/ SyncNoLoadOrder
    \/ SyncGenerate
    \/ SyncReturn

SpecCmd == InitCmdSpec /\ [][NextCmd]_vars

InitClassifySpec ==
    /\ DiffIdle /\ SortIdle /\ DeployIdle /\ SvcIdle /\ PluginsIdle
    /\ CmdIdle /\ InitClassify /\ LocalIdle /\ ReconcileIdle /\ WebIdle

NextClassify ==
    \/ SkipHidden
    \/ StartStrip
    \/ StripWrapper
    \/ SkipEmpty
    \/ ClassifyEffective

SpecClassify == InitClassifySpec /\ [][NextClassify]_vars

InitLocalSpec ==
    /\ DiffIdle /\ SortIdle /\ DeployIdle /\ SvcIdle /\ PluginsIdle
    /\ CmdIdle /\ ClassifyIdle /\ InitLocal /\ ReconcileIdle /\ WebIdle

NextLocal ==
    \/ AddCollectionMod
    \/ AddModByUrl
    \/ AddLocal

SpecLocal == InitLocalSpec /\ [][NextLocal]_vars

InitReconcileSpec ==
    /\ DiffIdle /\ SortIdle /\ DeployIdle /\ SvcIdle /\ PluginsIdle
    /\ CmdIdle /\ ClassifyIdle /\ LocalIdle /\ InitReconcile /\ WebIdle

NextReconcile ==
    \/ UpdateCompare
    \/ UpdateAddMod
    \/ UpdateSave
    \/ CompareAgain

SpecReconcile == InitReconcileSpec /\ [][NextReconcile]_vars

InitWebSpec ==
    /\ DiffIdle /\ SortIdle /\ DeployIdle /\ SvcIdle /\ PluginsIdle
    /\ CmdIdle /\ ClassifyIdle /\ LocalIdle /\ ReconcileIdle /\ InitWeb

NextWeb ==
    \/ ApiRequest
    \/ TaskLoad
    \/ TaskSave
    \/ TaskFail

SpecWeb == InitWebSpec /\ [][NextWeb]_vars

(***************************************************************************)
(* Properties of the diff engine.                                          *)
(***************************************************************************)
IdsOf(s) == {s[i].mod_id : i \in DOMAIN s}

InstalledIds == DOMAIN state_mods

LatestIds == IdsOf(collection_mods)

DistinctLatestIds ==
    \A i, j \in DOMAIN collection_mods :
        collection_mods[i].mod_id = collection_mods[j].mod_id => i = j

\* installed manual mods the collection does not list: they are in no bucket
ManualAbsent == {mid \in InstalledIds \ LatestIds : state_mods[mid].manual}

PairwiseDisjoint(A, B, C, D) ==
    /\ A \cap B = {} /\ A \cap C = {} /\ A \cap D = {}
    /\ B \cap C = {} /\ B \cap D = {}
    /\ C \cap D = {}

C3_ByFileId ==
    diff_pc = "done" =>
        /\ \A i \in DOMAIN collection_mods :
               LET m == collection_mods[i]
                   installed == m.mod_id \in InstalledIds
               IN  /\ m \in Range(to_install) <=> ~installed
                   /\ m \in Range(to_update) <=>
                          installed /\ state_mods[m.mod_id].file_id # m.file_id
                   /\ m \in Range(up_to_date) <=>
                          installed /\ state_mods[m.mod_id].file_id = m.file_id
        /\ Len(to_install) + Len(to_update) + Len(up_to_date)
               = Len(collection_mods)
        /\ ( /\ InstalledIds = {10}
             /\ state_mods[10].file_id = 5
             /\ Len(collection_mods) = 2
             /\ collection_mods[1].mod_id = 10 /\ collection_mods[1].file_id = 6
             /\ collection_mods[2].mod_id = 11 /\ collection_mods[2].file_id = 1 )
           => /\ to_update = <<collection_mods[1]>>
              /\ to_install = <<collection_mods[2]>>
              /\ up_to_date = <<>>
              /\ to_remove = {}

\* the example of C3 with the version of mod 10 unchanged: still an update
C3_Witness ==
    /\ diff_pc = "done"
    /\ InstalledIds = {10}
    /\ state_mods[10].file_id = 5
    /\ Len(collection_mods) = 2
    /\ collection_mods[1] = [mod_id |-> 10, file_id |-> 6,
                             version |-> state_mods[10].version]
    /\ collection_mods[2].mod_id = 11 /\ collection_mods[2].file_id = 1
    /\ to_update = <<collection_mods[1]>>
    /\ to_install = <<collection_mods[2]>>

(***************************************************************************)
(* Properties of the load order resolver.                                  *)
(***************************************************************************)
NumMods == Cardinality(all_mod_ids)

\* the position of mod m in the order s
Pos(s, m) == CHOOSE i \in DOMAIN s : s[i] = m

RECURSIVE ReachableIn(_, _, _)
\* the mods reached from the set S by one to k edges of e
ReachableIn(e, S, k) ==
    IF k = 0 THEN {}
    ELSE LET next == UNION {e[m] : m \in S}
         IN  next \cup ReachableIn(e, next, k - 1)

Acyclic(e) == \A m \in all_mod_ids : m \notin ReachableIn(e, {m}, NumMods)

\* the order by (phase, lower-cased name, mod id), stated apart from the heap
PriorityBefore(m, n) ==
    \/ mod_phases[m] < mod_phases[n]
    \/ /\ mod_phases[m] = mod_phases[n]
       /\ StrLess(Lower(mod_names[m]), Lower(mod_names[n]))
    \/ /\ mod_phases[m] = mod_phases[n]
       /\ Lower(mod_names[m]) = Lower(mod_names[n])
       /\ m < n

\* the order by (phase, lower-cased name) of the cycle fallback
FallbackBefore(m, n) ==
    \/ mod_phases[m] < mod_phases[n]
    \/ /\ mod_phases[m] = mod_phases[n]
       /\ StrLess(Lower(mod_names[m]), Lower(mod_names[n]))

\* the mods with no remaining in-degree that are not emitted yet
Ready == {m \in all_mod_ids : in_degree[m] = 0 /\ m \notin Range(result)}

\* C4: the returned list is a permutation of the input mod-id set: same
\* cardinality, no duplicates, no omissions, for acyclic and cyclic inputs,
\* self-referencing and repeated rules included.
C4_Permutation ==
    sort_pc = "done" =>
        /\ Len(result) = NumMods
        /\ Range(result) = all_mod_ids
        /\ \A i, j \in DOMAIN result : result[i] = result[j] => i = j

\* a finished run over a self-referencing rule and a repeated edge
C4_Witness ==
    /\ sort_pc = "done"
    /\ used_fallback
    /\ 1 \in edges[1]
    /\ 3 \in edges[2]
    /\ rules_seen = 2 /\ reqs_seen = 1
    /\ Len(result) = NumMods

\* C5: when the graph of the rules and requirement edges is acyclic, every
\* edge u->v has u strictly before v in the returned order.
C5_EdgesRespected ==
    (sort_pc = "done" /\ Acyclic(edges)) =>
        \A u \in all_mod_ids : \A v \in edges[u] :
            /\ u \in Range(result) /\ v \in Range(result)
            /\ Pos(result, u) < Pos(result, v)

\* C6: two runs on the same mods, phases, rules and requirements return the
\* identical sequence.
C6_Deterministic == sort_pc = "done" => rerun = result

\* the input of the example: phases A:0, B:0, C:1 and the one rule before(B,A),
\* with A, B, C the mods 1, 2, 3
C7_ExampleInput ==
    /\ mod_phases = (1 :> 0) @@ (2 :> 0) @@ (3 :> 1)
    /\ edges = (1 :> {}) @@ (2 :> {1}) @@ (3 :> {})
    /\ rules_seen = 1
    /\ reqs_seen = 0

\* C7: every step of the Kahn loop emits the minimum, by (phase, lower-cased
\* name, mod id), of the mods whose remaining in-degree is zero and that are
\* not emitted yet; the example input resolves to [B, A, C].
C7_KahnEmitsMinimum ==
    [][ /\ (sort_pc = "kahn" /\ sort_pc' = "kahn") =>
              /\ Len(result') = Len(result) + 1
              /\ result'[Len(result')] \in Ready
              /\ \A n \in Ready \ {result'[Len(result')]} :
                     PriorityBefore(result'[Len(result')], n)
        /\ (sort_pc' = "done" /\ C7_ExampleInput') => result' = <<2, 1, 3>>
      ]_vars

\* the example of C7, resolved
C7_Witness ==
    /\ sort_pc = "done"
    /\ C7_ExampleInput
    /\ mod_names = (1 :> <<97>>) @@ (2 :> <<66>>) @@ (3 :> <<97>>)
    /\ result = <<2, 1, 3>>

\* the loop can go on, or the function can return
CanStep == ENABLED (KahnStep \/ Finish)

\* C8: the Kahn loop and the fallback terminate (every step makes the number
\* of mods still to emit smaller, and a step is always possible until the
\* return), and the return appends the mods the loop could not emit after all
\* emitted ones, in ascending (phase, lower-cased name) order, every mod once.
C8_CycleFallback ==
    [][ /\ sort_pc = "kahn" =>
              /\ visited <= NumMods
              /\ sort_pc' = "done" \/ NumMods - visited' < NumMods - visited
              /\ sort_pc' = "kahn" => CanStep'
        /\ (sort_pc = "kahn" /\ sort_pc' = "done") =>
              /\ Len(result') = NumMods
              /\ Range(result') = all_mod_ids
              /\ SubSeq(result', 1, Len(result)) = result
              /\ \A i, j \in (Len(result) + 1)..NumMods :
                     i < j => ~FallbackBefore(result'[j], result'[i])
      ]_vars

\* the rules before(A,B) and before(B,A), with A, B the mods 1 and 2 in
\* different phases: mod 3 is emitted, then the fallback orders 2 before 1
C8_Witness ==
    /\ sort_pc = "done"
    /\ used_fallback
    /\ edges = (1 :> {2}) @@ (2 :> {1}) @@ (3 :> {})
    /\ rules_seen = 2 /\ reqs_seen = 0
    /\ mod_phases[1] = 1 /\ mod_phases[2] = 0
    /\ result = <<3, 2, 1>>

\* what a run on the same mods with no rule and no requirement returns; it
\* never takes the fallback
NoRuleOrder == HeapPushAll(<<>>, all_mod_ids, mod_names, mod_phases)

\* C9: the caller can tell a run that used the cycle fallback from a run that
\* did not: the value returned by a fallback run differs from the value the
\* run without rules returns.
C9_CycleReported ==
    (sort_pc = "done" /\ used_fallback) => result # NoRuleOrder

(***************************************************************************)
(* Properties of the deployment executor.                                  *)
(***************************************************************************)
\* the destinations of the plan, as full paths
PlanDests ==
    {game_dir \o plan_root[i] : i \in DOMAIN plan_root}
        \cup {data_dir \o plan_data[i] : i \in DOMAIN plan_data}

\* no destination of the plan exists before the deploy
DestsFresh ==
    \A dest \in PlanDests : dest \notin DOMAIN fs0_files /\ dest \notin fs0_dirs

\* deploy ran for real without a per-file error, and undeploy of its records
\* has returned
RoundTripDone ==
    /\ dep_pc = "undeployed"
    /\ ~dry_run
    /\ errors = <<>>
    /\ DestsFresh

\* the directories that exist now and did not before the deploy
LeftBehind == fs_dirs \ fs0_dirs

\* d lies strictly above e
Above(d, e) == Len(d) < Len(e) /\ SubSeq(e, 1, Len(d)) = d

CurrentDest == IF und_i <= Len(deployed) THEN deployed[und_i].dest ELSE <<>>

\* C11: a step of undeploy removes no file but the destination of the record
\* it handles, and removes no directory but empty ones strictly below the game
\* root and other than the Data directory: never the game root, the Data
\* directory or a directory above the game root.
C11_PruneBounded ==
    [][ dep_pc = "undeploy" =>
          /\ \A f \in DOMAIN fs_files \ DOMAIN fs_files' : f = CurrentDest
          /\ \A d \in fs_dirs \ fs_dirs' :
                 /\ Above(game_dir, d)
                 /\ d # data_dir
                 /\ \A f \in DOMAIN fs_files' : ~Above(d, f)
      ]_vars

\* the repeated call of deploy has returned
RedeployDone == dep_pc = "deployed" /\ run = 2

\* C12: when deploy is called twice in a row with the same plan, game_dir and
\* method, every entry the first call deployed is deployed by the second call
\* too, the destination that exists since the first call being removed before
\* the new one is made; and when the OS treats every entry in the second call
\* as in the first, the tree and the returned records after the second call
\* are those after the first.
C12_Idempotent ==
    RedeployDone =>
        /\ Range(first.deployed) \subseteq Range(deployed)
        /\ os_log = first.os_log =>
               /\ deployed = first.deployed
               /\ fs_dirs = first.dirs
               /\ fs_files = first.files

\* a repeated real deploy of three entries, two of them onto the same
\* destination, where a foreign Data/a.esp lay before the first call
C12_Witness ==
    /\ RedeployDone
    /\ ~dry_run
    /\ data_dir \o <<"a.esp">> \in DOMAIN fs0_files
    /\ plan_data = <<<<"a.esp">>, <<"a.esp">>>>
    /\ Len(first.deployed) = 3
    /\ deployed = first.deployed
    /\ fs_files = first.files
    /\ fs_files[data_dir \o <<"a.esp">>].src = Src("data", 2)

\* the last entry of a partition of the plan that maps to dest_rel
LastFor(plan, dest_rel) ==
    CHOOSE i \in DOMAIN plan :
        plan[i] = dest_rel /\ \A j \in DOMAIN plan : plan[j] = dest_rel => j <= i

\* for every two entries of one partition with the same destination a
\* conflict naming the later one is recorded, and after a real run without
\* per-file errors the destination holds the last of them
ConflictsHandled(base, top, plan) ==
    \A i, j \in DOMAIN plan :
        (i < j /\ plan[i] = plan[j]) =>
            /\ \E k \in DOMAIN conflicts :
                   conflicts[k].dest_rel = plan[j] /\ conflicts[k].by = Src(base, j)
            /\ (~dry_run /\ errors = <<>>) =>
                   /\ top \o plan[j] \in DOMAIN fs_files
                   /\ fs_files[top \o plan[j]].src = Src(base, LastFor(plan, plan[j]))

\* C13: when two entries of a plan map to the same destination, both being
\* game-root entries or both being game-data entries, the deploy records a
\* conflict for the destination, handles every entry, and leaves the file of
\* the later entry at the destination.
C13_ConflictRecorded ==
    dep_pc = "deployed" =>
        /\ Len(deployed) + Len(errors) = Len(plan_root) + Len(plan_data)
        /\ ConflictsHandled("root", game_dir, plan_root)
        /\ ConflictsHandled("data", data_dir, plan_data)

\* C14: no two of the records a deploy returns have the same destination.
C14_UniqueDestinations ==
    dep_pc = "deployed" =>
        \A i, j \in DOMAIN deployed :
            deployed[i].dest = deployed[j].dest => i = j

\* the entry an iteration of deploy handles: its source, its destination
\* relative to the partition's directory, and its destination
CurrentEntry ==
    IF dep_pc = "root"
    THEN [src |-> Src("root", dep_i), dest_rel |-> plan_root[dep_i],
          dest |-> game_dir \o plan_root[dep_i]]
    ELSE [src |-> Src("data", dep_i), dest_rel |-> plan_data[dep_i],
          dest |-> data_dir \o plan_data[dep_i]]

AllRecords ==
    [i \in 1..total_files |->
        IF i <= Len(plan_root)
        THEN DeployedFile(Src("root", i), game_dir \o plan_root[i], method)
        ELSE DeployedFile(Src("data", i - Len(plan_root)),
                          data_dir \o plan_data[i - Len(plan_root)], method)]

RECURSIVE DataConflicts(_)
\* a conflict for every one of the first j Data/ entries that has an earlier
\* entry with its destination, naming the last such entry
DataConflicts(j) ==
    IF j = 0 THEN <<>>
    ELSE LET earlier == {i \in 1..(j - 1) : plan_data[i] = plan_data[j]}
             last == CHOOSE i \in earlier : \A k \in earlier : k <= i
         IN  DataConflicts(j - 1) \o
                 (IF earlier = {} THEN <<>>
                  ELSE <<[dest_rel |-> plan_data[j], by |-> Src("data", j),
                          was |-> Src("data", last)]>>)

\* deploy has returned to the command that called it
DeployReturned == svc_pc = "deploying" /\ dep_pc = "deployed"

\* C16: a dry run of the deploy command changes neither the tree (no
\* directory made, no destination removed or written, the previous deployment
\* left in place) nor the state file; and the deployed records and the
\* conflicts that deploy returns in a dry run are those a real run of the plan
\* returns when it meets no per-file failure: a record for every entry and a
\* conflict for every repeated Data/ destination.
C16_DryRun ==
    /\ (svc_op = "deploy" /\ dry_run) =>
           /\ fs_dirs = fs0_dirs
           /\ fs_files = fs0_files
           /\ persisted = persisted0
    /\ (DeployReturned /\ (dry_run \/ errors = <<>>)) =>
           /\ deployed = AllRecords
           /\ conflicts = DataConflicts(Len(plan_data))

\* a dry run over a previous deployment, of a plan of three entries with a
\* conflict, has returned
C16_Witness ==
    /\ svc_op = "deploy" /\ dry_run
    /\ svc_pc = "returned"
    /\ persisted0 # <<>>
    /\ persisted = persisted0
    /\ plan_data = <<<<"a.esp">>, <<"a.esp">>>>
    /\ Len(deployed) = 3
    /\ Len(conflicts) = 1
    /\ fs_files = fs0_files

\* a command that invalidates the previous deployment has returned: a real
\* deploy past the check of the game directory, or an undeploy
InvalidatingReturned ==
    /\ svc_pc = "returned"
    /\ \/ svc_op = "undeploy"
       \/ svc_op = "deploy" /\ ~dry_run /\ game_dir \in fs0_dirs

\* C17: when a real deploy that got past its directory checks, or an
\* undeploy, has returned, the state file lists no record of the previous
\* deployment any more, whatever path the command took.
C17_PreviousInvalidated ==
    InvalidatingReturned => Range(persisted) \cap Range(persisted0) = {}

\* the files in the tree that the deploy of the running command created
CreatedByRun ==
    {f \in DOMAIN fs_files : fs_files[f].src[1] \in {"root", "data"}}

\* C18: when a deploy command is interrupted, the state file has a record for
\* every destination the interrupted run created, and every record of the
\* state file names a file of the tool that is in the tree.
C18_PartialRecorded ==
    (svc_pc = "interrupted" /\ svc_op = "deploy") =>
        /\ \A f \in CreatedByRun :
               \E k \in DOMAIN persisted : persisted[k].dest = f
        /\ \A k \in DOMAIN persisted :
               /\ persisted[k].dest \in DOMAIN fs_files
               /\ fs_files[persisted[k].dest].src # Foreign

(***************************************************************************)
(* Properties of the plugin listing.                                       *)
(***************************************************************************)
\* a line of the listing carries the enabled marker
Marked(line) == line # <<>> /\ line[1] = 42

\* the plugin a line of the listing names
Strip(line) == IF Marked(line) THEN Tail(line) ELSE line

HasFilename(p) == p.filename # <<>>

\* the declared entries that name a plugin, in the declared order
Declared == FilterSeq(collection_plugins, HasFilename, <<>>)

\* C19: the merged listing names exactly the plugins the collection declares,
\* each once, whatever the external sorter returned.
C19_SamePluginSet ==
    plug_pc = "done" =>
        /\ {Strip(merged[i]) : i \in DOMAIN merged}
               = {Declared[i].filename : i \in DOMAIN Declared}
        /\ \A i, j \in DOMAIN merged : Strip(merged[i]) = Strip(merged[j]) => i = j

\* C20: when the external sorter gave an order the listing is that order, and
\* a line carries the marker iff the collection declares the plugin, compared
\* without regard to case, in an entry that is enabled; when the sorter is
\* unavailable or failed the listing is the declared order of the entries
\* that name a plugin, a line carrying the marker iff its entry is enabled.
\* An entry without an "enabled" key counts as enabled.
C20_FlagsAndOrder ==
    plug_pc = "done" =>
        IF loot_sorted.sorted
        THEN /\ Len(merged) = Len(loot_sorted.order)
             /\ \A i \in DOMAIN merged :
                    /\ Strip(merged[i]) = loot_sorted.order[i]
                    /\ Marked(merged[i]) <=>
                           \E k \in DOMAIN Declared :
                               /\ Lower(Declared[k].filename) = Lower(loot_sorted.order[i])
                               /\ Declared[k].enabled # "false"
        ELSE /\ Len(merged) = Len(Declared)
             /\ \A i \in DOMAIN merged :
                    /\ Strip(merged[i]) = Declared[i].filename
                    /\ Marked(merged[i]) <=> Declared[i].enabled # "false"

\* the sorter puts b before a against the declared order: the listing follows
\* the sorter and takes the flags from the collection
C20_Witness ==
    /\ plug_pc = "done"
    /\ collection_plugins = <<[filename |-> <<97>>, enabled |-> "true"],
                              [filename |-> <<98>>, enabled |-> "false"]>>
    /\ loot_sorted = [sorted |-> TRUE, order |-> <<<<98>>, <<97>>>>]
    /\ merged = <<<<98>>, <<42, 97>>>>

(***************************************************************************)
(* Properties of the commands on the state file.                           *)
(***************************************************************************)
\* regenerate_load_order runs without a state file, or on a state file
\* without cached manifest
RegenWithoutState ==
    /\ cmd_op = "regenerate"
    /\ \/ ~state_file0.exists
       \/ state_file0.exists /\ state_file0.valid /\ ~state_file0.manifest

\* C21: regenerate_load_order with no state file or with no cached manifest
\* writes no load order or plugin file and leaves the state file as it is, at
\* every point of the call, and ends raising an error to the caller.
C21_MissingState ==
    RegenWithoutState =>
        /\ lo_written = {}
        /\ state_file = state_file0
        /\ cmd_pc \notin {"start", "loaded"} =>
               cmd_pc = "done" /\ cmd_result = "error"

\* regenerate_load_order has raised on a state file with mods and without
\* manifest_data
C21_Witness ==
    /\ RegenWithoutState
    /\ state_file0.exists
    /\ state_file0.mods = SyncModIds
    /\ cmd_pc = "done"
    /\ cmd_result = "error"

\* C22: when the collection manifest cannot be parsed during a sync, the sync
\* ends with an error to the caller, and with the state file and the load
\* order files as they were before it.
C22_MalformedSurfaced ==
    (cmd_op = "sync" /\ manifest_in = "malformed" /\ cmd_pc = "returned") =>
        /\ cmd_result = "error"
        /\ state_file = state_file0
        /\ lo_written = {}


(***************************************************************************)
(* Properties of the classification of staged files.                       *)
(***************************************************************************)
\* a path without its leading segments that match one of the two patterns
RECURSIVE Stripped(_)
Stripped(parts) ==
    IF parts # <<>> /\ (NUMBERED_OPTION_RE(Head(parts)) \/ SFSE_VERSION_DIR_RE(Head(parts)))
    THEN Stripped(Tail(parts))
    ELSE parts

\* "00 - Main/Data/Meshes/foo.nif"
ExamplePath ==
    <<<<"0", "0", " ", "-", " ", "M", "a", "i", "n">>, <<"D", "a", "t", "a">>,
      <<"M", "e", "s", "h", "e", "s">>, <<"f", "o", "o", ".", "n", "i", "f">>>>

\* "Meshes/foo.nif"
ExampleDest == <<<<"M", "e", "s", "h", "e", "s">>, <<"f", "o", "o", ".", "n", "i", "f">>>>

\* classify_files has dealt with a file that is not hidden
ClassifiedVisible == cls_pc = "done" /\ cls_plan.reason # "hidden file"

\* C23: what classify_files classifies is the path without its leading
\* segments that match the numbered option or the versioned directory
\* pattern; a path of which nothing is left is skipped as empty and gets no
\* destination; "00 - Main/Data/Meshes/foo.nif" goes to the data partition
\* with destination Meshes/foo.nif.
C23_Stripping ==
    ClassifiedVisible =>
        /\ effective_parts = Stripped(cls_rel)
        /\ effective_parts = <<>> =>
               cls_plan = SkippedEntry("empty after stripping option folders")
        /\ cls_plan.base \in {"root", "data"} =>
               cls_plan = PlanEntry(classify_file(effective_parts))
        /\ cls_rel = ExamplePath =>
               cls_plan.base = "data" /\ cls_plan.dest = ExampleDest

\* the example path has been classified
C23_Witness ==
    /\ cls_pc = "done"
    /\ cls_rel = ExamplePath
    /\ effective_parts = Tail(ExamplePath)
    /\ cls_plan.base = "data"

\* the file got a destination
Routed == cls_pc = "done" /\ cls_plan.base \in {"root", "data"}

\* C24: a routed path with an SFSE segment, at whatever depth, goes to the
\* data partition with the destination that starts at that segment.
C24_SfseAnyDepth ==
    (Routed /\ sfse_idx(effective_parts) > 0) =>
        /\ cls_plan.base = "data"
        /\ cls_plan.dest = From(effective_parts, sfse_idx(effective_parts))

\* C25: a routed file with a loader name that lies inside a directory is
\* classified by the rules after the loader rule.
C25_LoaderRootOnly ==
    (Routed /\ Len(effective_parts) > 1 /\ IsLoaderName(effective_parts)) =>
        cls_plan = PlanEntry(LaterRules(effective_parts))


(***************************************************************************)
(* Further properties of the load order resolver.                          *)
(***************************************************************************)
\* the mods with an edge to m
Incoming(m) == {u \in all_mod_ids : m \in edges[u]}

\* the loops over rules and requirements are over and no mod is popped yet
EdgesBuilt == sort_pc = "kahn" /\ visited = 0

\* C26: after edge construction the in-degree counter of every mod is the
\* number of its distinct incoming edges, and the cycle fallback is taken
\* only when the edges contain a directed cycle.
C26_FallbackOnlyOnCycle ==
    /\ EdgesBuilt =>
           \A m \in all_mod_ids : in_degree[m] = Cardinality(Incoming(m))
    /\ (sort_pc = "done" /\ used_fallback) => ~Acyclic(edges)

\* C27: the returned order is grouped by phase: no mod of a higher phase
\* comes before a mod of a lower phase.
C27_PhaseGrouped ==
    sort_pc = "done" =>
        \A i, j \in DOMAIN result :
            i < j => mod_phases[result[i]] <= mod_phases[result[j]]


(***************************************************************************)
(* Properties of the registration of local mods.                           *)
(***************************************************************************)
\* C29: every add_local returns a negative id that was no key of the state
\* before the call, stores under it one record with manual = True and phase
\* 999, and leaves every record that was there before as it was; no id that
\* add_local returned is positive.
C29_AddLocalFresh ==
    /\ loc_op = "add_local" =>
           /\ loc_ret < 0
           /\ loc_ret \notin DOMAIN loc_prev
           /\ DOMAIN loc_mods = DOMAIN loc_prev \cup {loc_ret}
           /\ loc_mods[loc_ret].manual
           /\ loc_mods[loc_ret].phase = 999
           /\ \A k \in DOMAIN loc_prev : loc_mods[k] = loc_prev[k]
    /\ \A k \in loc_local : k < 0 /\ k \in DOMAIN loc_mods

\* a third add_local after two, on a state that began with the local mod -2:
\* the ids -1 and -2 are taken and -3 is returned
C29_Witness ==
    /\ loc_op = "add_local"
    /\ loc_ret = 0 - 3
    /\ (0 - 2) \in DOMAIN loc_prev
    /\ (0 - 1) \in DOMAIN loc_prev
    /\ loc_mods[loc_ret].phase = 999


(***************************************************************************)
(* Properties of an update followed by a second comparison.                *)
(***************************************************************************)
\* the mods that the update installed or updated
Reconciled == IdsOf(rec_first.to_install) \cup IdsOf(rec_first.to_update)

\* C30: after add_mod of every mod of to_install and to_update, the
\* comparison with the same mod list returns empty to_install and to_update
\* and the same to_remove, and no record of another mod has changed.
C30_Converges ==
    rec_pc = "done" =>
        /\ rec_second.to_install = <<>>
        /\ rec_second.to_update = <<>>
        /\ rec_second.to_remove = rec_first.to_remove
        /\ DOMAIN rec_state = DOMAIN rec_state0 \cup Reconciled
        /\ \A k \in DOMAIN rec_state0 \ Reconciled : rec_state[k] = rec_state0[k]


(***************************************************************************)
(* Properties of the web application.                                      *)
(***************************************************************************)
\* C28: at most one state-mutating operation of the web application is in
\* flight at a time, and no operation saves the state file over a save that
\* another operation made after the first had loaded it.
C28_OneInFlight ==
    /\ Cardinality(Running) <= 1
    /\ ~web_overwrote

=============================================================================
